---- MODULE Spec2Model ----
(***************************************************************************)
(* Model of the spinal-fracture consult dashboard: the duration normaliser *)
(* calculateHospitalizationDays and the derivations the Dashboard          *)
(* component builds on it (src/src/components/Dashboard.tsx).              *)
(*                                                                         *)
(* A JavaScript string is a sequence of one-character strings (its UTF-16  *)
(* code units); a non-ASCII unit is written by its code point, "U624B".    *)
(* A JavaScript number is an integer count of 1/Scale units, so that the   *)
(* fractions the inputs can hold are exact.  A Date is a UTC day number    *)
(* and a second of that day, or Invalid Date.                              *)
(***************************************************************************)
EXTENDS Integers, Sequences, FiniteSets

VARIABLES
    tz,                \* environment: local time zone, hours east of UTC
    admission,         \* calculateHospitalizationDays: first argument
    dischargeOrPeriod, \* calculateHospitalizationDays: second argument
    timestamp,         \* calculateHospitalizationDays: third argument
    result,            \* the value the call returned
    pc,                \* "call" before the call, "done" after it
    patients,          \* Dashboard: the patients prop, each record by its name
    filter,            \* Dashboard: useState("")
    selectedYear,      \* Dashboard: useState("All")
    apiUrl,            \* environment: process.env.NEXT_PUBLIC_GAS_API_URL
    loaderPc,          \* fetchPatients: where the call stands
    requests,          \* the number of requests fetchPatients has issued
    response,          \* what the fetch settled with
    log,               \* the console messages of fetchPatients
    authEnv,           \* environment: process.env.AUTH_USER and AUTH_PASS
    session,           \* the browser's cookie "session": its value, or none
    loggedIn,          \* history: a login succeeded and no logout followed
    loginResult,       \* what the last call of login returned
    pending,           \* the path the browser is about to request, or none
    hops,              \* redirects of the middleware in this navigation
                       \* since the cookie last changed
    served             \* the path of the last request let through, or none

loaderVars == <<apiUrl, loaderPc, requests, response, log>>

sessionVars == <<authEnv, session, loggedIn, loginResult, pending, hops, served>>

vars == <<tz, admission, dischargeOrPeriod, timestamp, result, pc,
          patients, filter, selectedYear, loaderVars, sessionVars>>

----------------------------------------------------------------------------
(* Bounds of the model *)

\* Fraction digits a numeric input may carry ("1.5" has one).
FracDigits == 1

\* Longest patient list drawn freely from the record set.
MaxPatients == 2

\* The year of the rendering: new Date().getFullYear().
CurrentYear == 2026

RECURSIVE Pow10(_)
Pow10(k) == IF k = 0 THEN 1 ELSE 10 * Pow10(k - 1)

Scale == Pow10(FracDigits)

----------------------------------------------------------------------------
(* Strings *)

DigitChars == <<"0", "1", "2", "3", "4", "5", "6", "7", "8", "9">>
UpperChars == <<"A", "B", "C", "D", "E", "F", "G", "H", "I", "J", "K", "L", "M",
                "N", "O", "P", "Q", "R", "S", "T", "U", "V", "W", "X", "Y", "Z">>
LowerChars == <<"a", "b", "c", "d", "e", "f", "g", "h", "i", "j", "k", "l", "m",
                "n", "o", "p", "q", "r", "s", "t", "u", "v", "w", "x", "y", "z">>

\* The white space of String.prototype.trim, Number() and the regular
\* expression class \s that the inputs can hold.
WhiteSpace == {" ", "\t", "\n", "U3000"}

IsDigit(c) == \E i \in 1..10 : DigitChars[i] = c
DigitVal(c) == (CHOOSE i \in 1..10 : DigitChars[i] = c) - 1
IsSpace(c) == c \in WhiteSpace

AllDigits(s) == s # <<>> /\ \A i \in 1..Len(s) : IsDigit(s[i])

RECURSIVE TrimStart(_)
TrimStart(s) ==
    IF s = <<>> THEN s
    ELSE IF IsSpace(Head(s)) THEN TrimStart(Tail(s)) ELSE s

RECURSIVE TrimEnd(_)
TrimEnd(s) ==
    IF s = <<>> THEN s
    ELSE IF IsSpace(s[Len(s)]) THEN TrimEnd(SubSeq(s, 1, Len(s) - 1)) ELSE s

\* String.prototype.trim
Trim(s) == TrimEnd(TrimStart(s))

\* String.prototype.includes
Includes(s, sub) ==
    \E i \in 0..(Len(s) - Len(sub)) : SubSeq(s, i + 1, i + Len(sub)) = sub

ToLowerChar(c) ==
    IF \E i \in 1..26 : UpperChars[i] = c
    THEN LowerChars[CHOOSE i \in 1..26 : UpperChars[i] = c]
    ELSE c

\* String.prototype.toLowerCase
RECURSIVE ToLowerCase(_)
ToLowerCase(s) ==
    IF s = <<>> THEN <<>> ELSE <<ToLowerChar(Head(s))>> \o ToLowerCase(Tail(s))

\* s.replace(/[^0-9]/g, '')
RECURSIVE OnlyDigits(_)
OnlyDigits(s) ==
    IF s = <<>> THEN <<>>
    ELSE (IF IsDigit(Head(s)) THEN <<Head(s)>> ELSE <<>>) \o OnlyDigits(Tail(s))

RECURSIVE StripLeadingZeros(_)
StripLeadingZeros(s) ==
    IF s # <<>> /\ Head(s) = "0" THEN StripLeadingZeros(Tail(s)) ELSE s

\* The value of a string of decimal digits (0 for the empty string).
RECURSIVE DigitsToNat(_)
DigitsToNat(s) ==
    IF s = <<>> THEN 0
    ELSE 10 * DigitsToNat(SubSeq(s, 1, Len(s) - 1)) + DigitVal(s[Len(s)])

\* The segments of s between the occurrences of the character c.
RECURSIVE SplitOn(_, _)
SplitOn(s, c) ==
    IF \E i \in 1..Len(s) : s[i] = c
    THEN LET i == CHOOSE k \in 1..Len(s) :
                      s[k] = c /\ \A j \in 1..(k - 1) : s[j] # c
         IN  <<SubSeq(s, 1, i - 1)>> \o SplitOn(SubSeq(s, i + 1, Len(s)), c)
    ELSE <<s>>

----------------------------------------------------------------------------
(* Values: a field of a record is a string or, for the fields the sheet    *)
(* may hold as numbers, a number.  A number is kept by its String() form.  *)

Str(s) == [isNum |-> FALSE, str |-> s]
Num(s) == [isNum |-> TRUE, str |-> s]

\* String(v)
StringOf(v) == v.str

\* A number: NaN, or n/Scale.
NaN == [nan |-> TRUE, n |-> 0]
Number_(k) == [nan |-> FALSE, n |-> k]

\* The first FracDigits digits of a fraction, as a count of 1/Scale units.
RECURSIVE FracUnits(_, _)
FracUnits(s, k) ==
    IF k = 0 THEN 0
    ELSE (IF s = <<>> THEN 0 ELSE DigitVal(Head(s))) * Pow10(k - 1)
         + FracUnits(IF s = <<>> THEN s ELSE Tail(s), k - 1)

\* Number(s) of a string: white space is trimmed, the empty string is 0, a
\* signed decimal literal is its value, anything else is NaN.  (Exponents,
\* hexadecimal literals and "Infinity" occur in no input of the model.)
StringToNumber(s) ==
    LET t == Trim(s)
        signed == t # <<>> /\ t[1] \in {"-", "+"}
        body == IF signed THEN Tail(t) ELSE t
        parts == SplitOn(body, ".")
        ip == parts[1]
        fp == IF Len(parts) = 2 THEN parts[2] ELSE <<>>
        wellFormed ==
            /\ Len(parts) <= 2
            /\ ip = <<>> \/ AllDigits(ip)
            /\ fp = <<>> \/ AllDigits(fp)
            /\ ip # <<>> \/ fp # <<>>
        magnitude == DigitsToNat(ip) * Scale + FracUnits(fp, FracDigits)
    IN  IF t = <<>> THEN Number_(0)
        ELSE IF ~wellFormed THEN NaN
        ELSE Number_(IF signed /\ t[1] = "-" THEN -magnitude ELSE magnitude)

\* Number(v)
ToNumber(v) == StringToNumber(v.str)

\* ToBoolean(v): used by !v and by v || w
Truthy(v) ==
    IF v.isNum THEN ~ToNumber(v).nan /\ ToNumber(v).n # 0 ELSE v.str # <<>>

\* v || w
OrElse(v, w) == IF Truthy(v) THEN v ELSE w

\* Math.floor of n/Scale
Floor(k) == k \div Scale

\* Math.round(a / b) for b > 0: the nearest integer, halves rounded up
RoundDiv(a, b) == (2 * a + b) \div (2 * b)

----------------------------------------------------------------------------
(* Dates.  A Date is [ok, day, sec]: Invalid Date (ok = FALSE), or the UTC   *)
(* day number since 1970-01-01 and the second of that day.  Local time is   *)
(* UTC plus tz hours; zones with daylight saving are outside the model.     *)

SecondsPerDay == 86400

InvalidDate == [ok |-> FALSE, day |-> 0, sec |-> 0]

\* The day number of the proleptic Gregorian date y-m-d (m in 1..12).
DaysFromCivil(y, m, d) ==
    LET yy == IF m <= 2 THEN y - 1 ELSE y
        era == yy \div 400
        yoe == yy - era * 400
        mp == IF m > 2 THEN m - 3 ELSE m + 9
        doy == (153 * mp + 2) \div 5 + d - 1
        doe == yoe * 365 + yoe \div 4 - yoe \div 100 + doy
    IN  era * 146097 + doe - 719468

\* The Gregorian date of a day number.
CivilFromDays(z) ==
    LET zz == z + 719468
        era == zz \div 146097
        doe == zz - era * 146097
        yoe == (doe - doe \div 1460 + doe \div 36524 - doe \div 146096) \div 365
        doy == doe - (365 * yoe + yoe \div 4 - yoe \div 100)
        mp == (5 * doy + 2) \div 153
        d == doy - (153 * mp + 2) \div 5 + 1
        m == IF mp < 10 THEN mp + 3 ELSE mp - 9
    IN  [y |-> yoe + era * 400 + (IF m <= 2 THEN 1 ELSE 0), m |-> m, d |-> d]

\* MakeDay(year, month, date) of ECMAScript: month is 0-based and may lie
\* outside 0..11, date may lie outside the month.
MakeDay(year, month, date) ==
    DaysFromCivil(year + month \div 12, (month % 12) + 1, 1) + date - 1

\* The Date of a day number and a count of seconds from its midnight.
DateAt(day, sec) ==
    [ok |-> TRUE, day |-> day + sec \div SecondsPerDay, sec |-> sec % SecondsPerDay]

\* The same instant seen in local time, and a local time as an instant.
ToLocal(d) == DateAt(d.day, d.sec + tz * 3600)
FromLocal(day, sec) == DateAt(day, sec - tz * 3600)

\* new Date(year, month, day): local midnight
NewDateYMD(year, month, day) == FromLocal(MakeDay(year, month, day), 0)

\* date.getFullYear(), of a valid date
GetFullYear(d) == CivilFromDays(ToLocal(d).day).y

\* date.setFullYear(year), of a valid date: the local month, day and time kept
SetFullYear(d, year) ==
    LET l == ToLocal(d)
        c == CivilFromDays(l.day)
    IN  FromLocal(MakeDay(year, c.m - 1, c.d), l.sec)

\* a > b on two valid dates
DateAfter(a, b) == a.day > b.day \/ (a.day = b.day /\ a.sec > b.sec)

\* Math.ceil((b.getTime() - a.getTime()) / (1000 * 60 * 60 * 24))
DiffDays(a, b) == (b.day - a.day) + (IF b.sec > a.sec THEN 1 ELSE 0)

\* The legacy parser's reading of a year: 0..49 is 2000.., 50..99 is 1950..
LegacyYear(y) ==
    IF y >= 0 /\ y <= 49 THEN y + 2000 ELSE IF y >= 50 /\ y <= 99 THEN y + 1900 ELSE y

IsDay(x) == x >= 1 /\ x <= 31
IsMonth(x) == x >= 1 /\ x <= 12

\* The legacy parser's day composer on the numbers it read (one to three): a
\* first number that is no day of a month is a year (Y M D), otherwise the
\* numbers are M D Y, the missing ones 1; the date is at local midnight.
LegacyDay(nums) ==
    LET a == nums[1]
        b == IF Len(nums) >= 2 THEN nums[2] ELSE 1
        c == IF Len(nums) >= 3 THEN nums[3] ELSE 1
        ymd == ~IsDay(a)
        year == LegacyYear(IF ymd THEN a ELSE c)
        month == IF ymd THEN b ELSE a
        day == IF ymd THEN c ELSE b
    IN  IF IsMonth(month) /\ IsDay(day)
        THEN [ok |-> TRUE, day |-> MakeDay(year, month - 1, day)]
        ELSE [ok |-> FALSE, day |-> 0]

\* The numbers of a string of one to three digit groups separated by single
\* "/" or "-" characters, or <<>> when the string is not of that shape.
RECURSIVE DateNumbers(_)
DateNumbers(s) ==
    LET isSep(c) == c \in {"/", "-"}
        hasSep == \E i \in 1..Len(s) : isSep(s[i])
        i == CHOOSE k \in 1..Len(s) : isSep(s[k]) /\ \A j \in 1..(k - 1) : ~isSep(s[j])
        rest == DateNumbers(SubSeq(s, i + 1, Len(s)))
    IN  IF ~hasSep THEN (IF AllDigits(s) THEN <<DigitsToNat(s)>> ELSE <<>>)
        ELSE IF AllDigits(SubSeq(s, 1, i - 1)) /\ rest # <<>>
             THEN <<DigitsToNat(SubSeq(s, 1, i - 1))>> \o rest
             ELSE <<>>

\* The seconds of a time of day "HH:MM" or "HH:MM:SS", or -1.
TimeOfDay(s) ==
    LET p == SplitOn(s, ":")
        h == DigitsToNat(p[1])
        m == DigitsToNat(p[2])
        sec == IF Len(p) = 3 THEN DigitsToNat(p[3]) ELSE 0
    IN  IF /\ Len(p) \in {2, 3}
           /\ \A i \in 1..Len(p) : AllDigits(p[i]) /\ Len(p[i]) <= 2
           /\ h <= 23 /\ m <= 59 /\ sec <= 59
        THEN h * 3600 + m * 60 + sec
        ELSE -1

\* Date.parse(s) and new Date(s) of V8, on the shapes the inputs have:
\*   "YYYY" and "YYYY-MM-DD" (ISO forms)            UTC midnight
\*   up to three numbers separated by "/" or "-"    local midnight (legacy)
\*   such a date, a space and "HH:MM[:SS]"          local time (legacy)
\*   the empty string, words, a number followed by words: Invalid Date
DateParse(s) ==
    LET iso == SplitOn(s, "-")
        isoYear == Len(s) = 4 /\ AllDigits(s)
        isoDate ==
            /\ Len(iso) = 3
            /\ Len(iso[1]) = 4 /\ Len(iso[2]) = 2 /\ Len(iso[3]) = 2
            /\ \A i \in 1..3 : AllDigits(iso[i])
            /\ IsMonth(DigitsToNat(iso[2])) /\ IsDay(DigitsToNat(iso[3]))
        sp == SplitOn(s, " ")
        datePart == IF Len(sp) = 2 THEN sp[1] ELSE s
        tod == IF Len(sp) = 2 THEN TimeOfDay(sp[2]) ELSE 0
        nums == DateNumbers(datePart)
        legacy == LegacyDay(nums)
    IN  IF isoYear THEN DateAt(MakeDay(DigitsToNat(s), 0, 1), 0)
        ELSE IF isoDate
             THEN DateAt(MakeDay(DigitsToNat(iso[1]), DigitsToNat(iso[2]) - 1,
                                 DigitsToNat(iso[3])), 0)
        ELSE IF Len(sp) <= 2 /\ nums # <<>> /\ Len(nums) <= 3 /\ tod >= 0 /\ legacy.ok
             THEN FromLocal(legacy.day, tod)
        ELSE InvalidDate

----------------------------------------------------------------------------
(* calculateHospitalizationDays *)

\* "We assume any number < 1000 is a day count, not a year/date"
DayCountLimit == 1000

\* What the function returns: null, or a number of days.  rule names the
\* return statement that produced it.
Null(r) == [null |-> TRUE, n |-> 0, rule |-> r]
Days(k, r) == [null |-> FALSE, n |-> k, rule |-> r]

\* cleanStr.match(/^(\d{1,2})[^\d](\d{1,2})$/): the two groups, or <<>>
MmDdMatch(cleanStr) ==
    LET fits(i) ==
            /\ Len(cleanStr) - i - 1 \in {1, 2}
            /\ AllDigits(SubSeq(cleanStr, 1, i))
            /\ ~IsDigit(cleanStr[i + 1])
            /\ AllDigits(SubSeq(cleanStr, i + 2, Len(cleanStr)))
    IN  IF \E i \in {1, 2} : fits(i)
        THEN LET i == CHOOSE k \in {1, 2} : fits(k)
             IN  <<SubSeq(cleanStr, 1, i), SubSeq(cleanStr, i + 2, Len(cleanStr))>>
        ELSE <<>>

\* The year that the standard parser gives a date without one.
DefaultParseYear == 2001

\* parseDate(dateStr, year)
parseDate(dateStr, year) ==
    LET cleanStr == Trim(dateStr)
        mmDdMatch == MmDdMatch(cleanStr)
        d == DateParse(cleanStr)
    IN  IF mmDdMatch # <<>>
        THEN NewDateYMD(year, DigitsToNat(mmDdMatch[1]) - 1, DigitsToNat(mmDdMatch[2]))
        ELSE IF d.ok /\ GetFullYear(d) = DefaultParseYear
             THEN SetFullYear(d, year)
             ELSE d

\* The base year: the year of the timestamp, else the current year.
BaseYear(ts) ==
    IF ts # <<>> /\ DateParse(ts).ok THEN GetFullYear(DateParse(ts)) ELSE CurrentYear

\* The start date after the year-boundary handling.
AdjustedStart(startDate, endDate, baseYear) ==
    IF DateAfter(startDate, endDate) THEN SetFullYear(startDate, baseYear - 1)
    ELSE startDate

\* (a slip of the comparison: 1000 itself accepted)
FallbackInclusive(valStr) ==
    LET digits == OnlyDigits(valStr)
    IN  IF digits # <<>> /\ Len(StripLeadingZeros(digits)) <= 4
           /\ DigitsToNat(digits) <= DayCountLimit
        THEN Days(DigitsToNat(digits), "fallback")
        ELSE Null("fallback")

\* The last two statements: the digits of the value as a day count.
Fallback(valStr) ==
    LET digits == OnlyDigits(valStr)
        significant == StripLeadingZeros(digits)
    IN  \* parseInt("") is NaN; more than three significant digits are >= 1000
        IF digits # <<>> /\ Len(significant) <= 3
           /\ DigitsToNat(significant) < DayCountLimit
        THEN Days(DigitsToNat(significant), "fallback")
        ELSE Null("fallback")

\* if (!isNaN(numericVal) && numericVal < 1000)
IsDayCount(numericVal) == ~numericVal.nan /\ numericVal.n < DayCountLimit * Scale

\* const isDate = !isNaN(Date.parse(valStr)) || valStr.includes("-") || valStr.includes("/")
IsDate(valStr) ==
    DateParse(valStr).ok \/ Includes(valStr, <<"-">>) \/ Includes(valStr, <<"/">>)

\* (a slip: the start marker compared as it stands, untrimmed)
IdenticalUntrimmed(valStr, adm) == valStr = adm

\* if (valStr === String(admission).trim())
IdenticalStrings(valStr, adm) == valStr = Trim(adm)

calculateHospitalizationDays(adm, dop, ts) ==
    LET valStr == Trim(StringOf(dop))
        numericVal == StringToNumber(valStr)
        baseYear == BaseYear(ts)
        startDate0 == parseDate(adm, baseYear)
        endDate == parseDate(valStr, baseYear)
        startDate == AdjustedStart(startDate0, endDate, baseYear)
        diffDays == DiffDays(startDate, endDate)
    IN  IF ~dop.isNum /\ dop.str = <<>> THEN Null("empty")
        ELSE IF IsDayCount(numericVal) THEN Days(Floor(numericVal.n), "direct")
        ELSE IF adm = <<>> THEN Null("noAdmission")
        ELSE IF IdenticalStrings(valStr, adm) THEN Days(0, "identical")
        ELSE IF IsDate(valStr) /\ startDate0.ok /\ endDate.ok /\ diffDays >= 0
             THEN Days(diffDays, "date")
        ELSE Fallback(valStr)

----------------------------------------------------------------------------
(* The calls of calculateHospitalizationDays: the inputs are drawn from the  *)
(* marker sets below, the one action is the call.                           *)

\* Start markers: empty, words, padded, a textual day count, dates with and
\* without a year.
StartMarkers == {
    <<>>,
    <<"a", "b", "c">>,
    <<" ", "a", "b", "c", " ">>,
    <<"1", "4", " ", "d", "a", "y", "s">>,
    <<"2", "0", "2", "3", "/", "1", "0", "/", "0", "1">>,
    <<"2", "0", "2", "3", "/", "1", "0", "/", "1", "0">>,
    <<" ", "2", "0", "2", "3", "/", "1", "0", "/", "1", "0">>,
    <<"2", "0", "2", "3", "-", "1", "2", "-", "2", "8">>,
    <<"1", "2", "-", "2", "8">>,
    <<"2", "0", "2", "4", "/", "0", "1", "/", "1", "0">> }

\* End-or-duration markers held as strings.
EndStrings == {
    <<>>,
    <<" ">>,
    <<"0">>,
    <<"1", "4">>,
    <<" ", "1", "4", " ">>,
    <<"-", "5">>,
    <<"9", "9", "9">>,
    <<"1", "0", "0", "0">>,
    <<"-", "1", "0", "0", "0">>,
    <<"2", "0", "0", "0">>,
    <<"1", ".", "5">>,
    <<"-", "1", ".", "5">>,
    <<"1", "4", " ", "d", "a", "y", "s">>,
    <<"1", "0", "0", "0", " ", "d", "a", "y", "s">>,
    <<"a", "b", "c">>,
    <<"P", "e", "n", "d", "i", "n", "g">>,
    <<"0", "1", "-", "0", "3">>,
    <<"2", "0", "2", "3", "/", "1", "0", "/", "0", "1">>,
    <<"2", "0", "2", "3", "/", "1", "0", "/", "1", "0">>,
    <<"2", "0", "2", "3", "-", "1", "0", "-", "1", "0">>,
    <<"2", "0", "2", "4", "/", "0", "1", "/", "0", "3">> }

\* End-or-duration markers held as numbers, by their String() form.
EndNumbers == {
    <<"0">>,
    <<"1", "4">>,
    <<"-", "5">>,
    <<"1", ".", "5">>,
    <<"-", "1", "0", "0", "0">>,
    <<"2", "0", "0", "0">> }

EndMarkers == {Str(e) : e \in EndStrings} \cup {Num(e) : e \in EndNumbers}

\* Reference timestamps: absent, unparseable, and two years.
Timestamps == {
    <<>>,
    <<"a", "b", "c">>,
    <<"2", "0", "2", "3", "/", "1", "0", "/", "0", "1", " ", "1", "0", ":", "0", "0", ":", "0", "0">>,
    <<"2", "0", "2", "4", "/", "0", "1", "/", "0", "5", " ", "1", "0", ":", "0", "0", ":", "0", "0">> }

\* Local time zones, hours east of UTC (New York in winter, UTC, Tokyo).
TimeZones == {-5, 0, 9}

All == <<"A", "l", "l">>

EnvInit == tz \in TimeZones

CalcIdle ==
    /\ admission = <<>> /\ dischargeOrPeriod = Str(<<>>) /\ timestamp = <<>>
    /\ result = Null("none") /\ pc = "idle"

DashIdle == patients = <<>> /\ filter = <<>> /\ selectedYear = All

\* process.env.NEXT_PUBLIC_GAS_API_URL: not set, or the address of the feed.
NoUrl == <<>>
GasApiUrl == <<"u", "r", "l">>
ApiUrls == {NoUrl, GasApiUrl}

\* What the fetch of fetchPatients settled with: nothing yet, a rejection,
\* or a response with its ok flag and its body.
NoResponse == [kind |-> "none", ok |-> FALSE, body |-> <<>>]
NetworkError == [kind |-> "error", ok |-> FALSE, body |-> <<>>]
HttpResponse(ok, body) == [kind |-> "response", ok |-> ok, body |-> body]

\* JSON.stringify(json) of doGet: the array of the rows' records, a record
\* object being held as one token, its name.
ArrayBody(list) == <<"[">> \o list \o <<"]">>

\* fetchPatients has returned the list the feed sent: the page of Home is
\* <Dashboard patients={patients} />.
LoaderReturned ==
    /\ apiUrl = GasApiUrl
    /\ loaderPc = "returned"
    /\ requests = 1
    /\ response = HttpResponse(TRUE, ArrayBody(patients))
    /\ log = <<>>

\* Values that are no string: an unset environment variable, a form field
\* that is absent, no cookie, no path.
Undefined == <<"undefined">>
FormNull == <<"null">>
NoCookie == <<"no cookie">>
NoPath == <<"no path">>

\* "/", "/login", and the value login gives the cookie.
RootPath == <<"/">>
LoginPath == <<"/", "l", "o", "g", "i", "n">>
Authenticated == <<"a", "u", "t", "h", "e", "n", "t", "i", "c", "a", "t", "e", "d">>

\* The configured credentials.
AuthUser == <<"d", "r">>
AuthPass == <<"p", "w">>

\* The session of a browser that has logged in and been served "/".
SessionOpen ==
    /\ authEnv = [user |-> AuthUser, pass |-> AuthPass]
    /\ session = Authenticated
    /\ loggedIn = TRUE
    /\ loginResult = "success"
    /\ pending = NoPath
    /\ hops = 0
    /\ served = RootPath

InitCalc ==
    /\ EnvInit
    /\ admission \in StartMarkers
    /\ dischargeOrPeriod \in EndMarkers
    /\ timestamp \in Timestamps
    /\ result = Null("none")
    /\ pc = "call"
    /\ DashIdle
    /\ LoaderReturned
    /\ SessionOpen

\* The call: result is what the function returns on the three arguments.
Call ==
    /\ pc = "call"
    /\ result' = calculateHospitalizationDays(admission, dischargeOrPeriod, timestamp)
    /\ pc' = "done"
    /\ UNCHANGED <<tz, admission, dischargeOrPeriod, timestamp,
                   patients, filter, selectedYear, loaderVars, sessionVars>>

NextCalc == Call

SpecCalc == InitCalc /\ [][NextCalc]_vars

----------------------------------------------------------------------------
(* The records the patient lists are drawn from. *)

\* The words the classification looks for.
MarkerSurgery == <<"S", "u", "r", "g", "e", "r", "y">>
MarkerSurgeryLower == <<"s", "u", "r", "g", "e", "r", "y">>
MarkerShujutsu == <<"U624B", "U8853">>
MarkerObservation == <<"O", "b", "s", "e", "r", "v", "a", "t", "i", "o", "n">>
MarkerConservative == <<"C", "o", "n", "s", "e", "r", "v", "a", "t", "i", "v", "e">>
MarkerHozon == <<"U4FDD", "U5B58">>
MarkerKeikaKansatsu == <<"U7D4C", "U904E", "U89B3", "U5BDF">>

Rec(ts, id, outcome, remarks, procedure, injuryDate, admissionDate, surgeryDate, hospitalizationPeriod, followUpStatus, newFractures) ==
    [timestamp |-> ts, id |-> id, outcome |-> outcome, remarks |-> remarks,
     procedure |-> procedure, injuryDate |-> injuryDate,
     admissionDate |-> admissionDate, surgeryDate |-> surgeryDate,
     hospitalizationPeriod |-> hospitalizationPeriod,
     followUpStatus |-> followUpStatus, newFractures |-> newFractures]

\* the first sample record: a date pair, the discharge side a status text
R1 ==
    Rec(<<"2", "0", "2", "3", "/", "1", "0", "/", "0", "1", " ", "1", "0", ":", "0", "0", ":", "0", "0">>,
        <<"P", "0", "0", "1">>, <<"S", "u", "r", "g", "e", "r", "y">>,
        <<"S", "e", "v", "e", "r", "e", " ", "p", "a", "i", "n", " ", "o", "n", " ", "m", "o", "t", "i", "o", "n">>,
        <<>>, <<"2", "0", "2", "3", "/", "0", "9", "/", "2", "5">>,
        <<"2", "0", "2", "3", "/", "1", "0", "/", "0", "1">>, <<"2", "0", "2", "3", "/", "1", "0", "/", "0", "2">>,
        Str(<<>>), Str(<<"P", "e", "n", "d", "i", "n", "g">>), <<"L", "1">>)

\* a total stay held as a number, the surgery one day after admission
R2 ==
    Rec(<<"2", "0", "2", "4", "/", "0", "1", "/", "0", "5", " ", "1", "0", ":", "0", "0", ":", "0", "0">>,
        <<"P", "0", "0", "2">>, MarkerShujutsu,
        <<>>,
        <<"B", "K", "P">>, <<"2", "0", "2", "3", "/", "1", "2", "/", "2", "0">>,
        <<"2", "0", "2", "3", "/", "1", "2", "/", "2", "8">>, <<"2", "0", "2", "3", "/", "1", "2", "/", "2", "9">>,
        Num(<<"1", "4">>), Str(<<>>), <<"T", "1", "2">>)

\* the third sample record: a textual day count
R3 ==
    Rec(<<"2", "0", "2", "3", "/", "1", "0", "/", "1", "0", " ", "0", "9", ":", "1", "5", ":", "0", "0">>,
        <<"P", "0", "0", "3">>, <<"C", "o", "n", "s", "e", "r", "v", "a", "t", "i", "v", "e">>,
        <<"C", "o", "n", "s", "e", "r", "v", "a", "t", "i", "v", "e", " ", "t", "r", "e", "a", "t", "m", "e", "n", "t">>,
        <<>>, <<"2", "0", "2", "3", "/", "1", "0", "/", "0", "8">>,
        <<"2", "0", "2", "3", "/", "1", "0", "/", "1", "0">>, <<>>,
        Str(<<"1", "4", " ", "d", "a", "y", "s">>), Str(<<"D", "i", "s", "c", "h", "a", "r", "g", "e", "d">>), <<"L", "3">>)

\* observation in Japanese, the timestamp unparseable
R4 ==
    Rec(<<"a", "b", "c">>,
        <<"P", "0", "0", "4">>, MarkerKeikaKansatsu,
        <<>>,
        <<>>, <<"2", "0", "2", "3", "/", "1", "0", "/", "1", "0">>,
        <<"2", "0", "2", "3", "/", "1", "0", "/", "1", "2">>, <<>>,
        Str(<<>>), Str(<<>>), <<"T", "1", "1">>)

\* an empty outcome
R5 ==
    Rec(<<"2", "0", "2", "4", "/", "0", "1", "/", "0", "5", " ", "1", "0", ":", "0", "0", ":", "0", "0">>,
        <<"P", "0", "0", "5">>, <<>>,
        <<>>,
        <<>>, <<>>,
        <<>>, <<>>,
        Str(<<>>), Str(<<>>), <<>>)

\* observation whose remarks mention surgery in capitals
R6 ==
    Rec(<<"2", "0", "2", "3", "/", "1", "0", "/", "1", "0", " ", "0", "9", ":", "1", "5", ":", "0", "0">>,
        <<"P", "0", "0", "6">>, <<"O", "b", "s", "e", "r", "v", "a", "t", "i", "o", "n">>,
        <<"C", "o", "n", "s", "i", "d", "e", "r", "i", "n", "g", " ", "S", "U", "R", "G", "E", "R", "Y">>,
        <<>>, <<"2", "0", "2", "3", "/", "1", "0", "/", "0", "8">>,
        <<"2", "0", "2", "3", "/", "1", "0", "/", "1", "0">>, <<>>,
        Str(<<>>), Str(<<"I", "n", " ", "H", "o", "s", "p", "i", "t", "a", "l">>), <<"L", "1", ",", " ", "L", "2">>)

\* surgery on the day of admission, the discharge side empty
R7 ==
    Rec(<<"2", "0", "2", "3", "/", "1", "0", "/", "1", "0", " ", "0", "9", ":", "1", "5", ":", "0", "0">>,
        <<"P", "0", "0", "7">>, <<"S", "u", "r", "g", "e", "r", "y">>,
        <<>>,
        <<"B", "K", "P">>, <<"2", "0", "2", "3", "/", "1", "0", "/", "0", "3">>,
        <<"2", "0", "2", "3", "/", "1", "0", "/", "0", "5">>, <<"2", "0", "2", "3", "/", "1", "0", "/", "0", "5">>,
        Str(<<>>), Str(<<>>), <<"L", "2">>)

\* a total stay of 14 days and no surgery date
R8 ==
    Rec(<<"2", "0", "2", "3", "/", "1", "0", "/", "1", "0", " ", "0", "9", ":", "1", "5", ":", "0", "0">>,
        <<"P", "0", "0", "8">>, <<"S", "u", "r", "g", "e", "r", "y">>,
        <<>>,
        <<"P", "P", "S">>, <<"2", "0", "2", "3", "/", "1", "0", "/", "0", "1">>,
        <<"2", "0", "2", "3", "/", "1", "0", "/", "0", "1">>, <<>>,
        Str(<<"1", "4">>), Str(<<>>), <<"T", "1", "0">>)

\* a negative total stay held as a number
R9 ==
    Rec(<<"2", "0", "2", "4", "/", "0", "1", "/", "0", "5", " ", "1", "0", ":", "0", "0", ":", "0", "0">>,
        <<"P", "0", "0", "9">>, MarkerShujutsu,
        <<>>,
        <<"P", "P", "S">>, <<"2", "0", "2", "3", "/", "0", "9", "/", "3", "0">>,
        <<"2", "0", "2", "3", "/", "1", "0", "/", "0", "1">>, <<"2", "0", "2", "3", "/", "1", "0", "/", "0", "2">>,
        Num(<<"-", "5">>), Str(<<>>), <<"L", "4">>)

\* a discharge date on the discharge side
R10 ==
    Rec(<<"2", "0", "2", "3", "/", "1", "0", "/", "1", "0", " ", "0", "9", ":", "1", "5", ":", "0", "0">>,
        <<"P", "0", "1", "0">>, <<"S", "u", "r", "g", "e", "r", "y">>,
        <<>>,
        <<"B", "K", "P">>, <<"2", "0", "2", "3", "/", "1", "0", "/", "0", "4">>,
        <<"2", "0", "2", "3", "/", "1", "0", "/", "0", "5">>, <<"2", "0", "2", "3", "/", "1", "0", "/", "0", "6">>,
        Str(<<"2", "0", "2", "3", "/", "1", "0", "/", "2", "0">>), Str(<<>>), <<"L", "1">>)

\* an outcome that names surgery in lower case, a fractional stay
R11 ==
    Rec(<<"2", "0", "2", "4", "/", "0", "1", "/", "0", "5", " ", "1", "0", ":", "0", "0", ":", "0", "0">>,
        <<"P", "0", "1", "1">>, <<"s", "u", "r", "g", "e", "r", "y">>,
        <<>>,
        <<>>, <<>>,
        <<"2", "0", "2", "3", "/", "1", "2", "/", "0", "1">>, <<>>,
        Str(<<"1", ".", "5">>), Str(<<>>), <<"U", "n", "k", "n", "o", "w", "n">>)

\* conservative in Japanese whose remarks mention surgery
R12 ==
    Rec(<<"a", "b", "c">>,
        <<"P", "0", "1", "2">>, MarkerHozon,
        <<"n", "o", " ", "S", "u", "r", "g", "e", "r", "y", " ", "n", "e", "e", "d", "e", "d">>,
        <<>>, <<>>,
        <<"2", "0", "2", "3", "/", "1", "0", "/", "0", "1">>, <<>>,
        Str(<<>>), Str(<<"7">>), <<"T", "5">>)

\* the second sample record: surgery scheduled, remarks that mention surgery
MockP002 ==
    Rec(<<"2", "0", "2", "3", "/", "1", "0", "/", "0", "5", " ", "1", "4", ":", "3", "0", ":", "0", "0">>,
        <<"P", "0", "0", "2">>, <<"S", "u", "r", "g", "e", "r", "y">>,
        <<"C", "o", "n", "s", "i", "d", "e", "r", "i", "n", "g", " ", "s", "u", "r", "g", "e", "r", "y", " ", "d", "u", "e", " ", "t", "o", " ", "n", "e", "u", "r", "o", " ", "d", "e", "f", "i", "c", "i", "t">>,
        <<>>, <<"2", "0", "2", "3", "/", "1", "0", "/", "0", "3">>,
        <<"2", "0", "2", "3", "/", "1", "0", "/", "0", "5">>, <<"2", "0", "2", "3", "/", "1", "0", "/", "0", "6">>,
        Str(<<>>), Str(<<"S", "c", "h", "e", "d", "u", "l", "e", "d", " ", "f", "o", "r", " ", "O", "P">>), <<"T", "1", "2">>)

\* the fourth sample record: under observation
MockP004 ==
    Rec(<<"2", "0", "2", "3", "/", "1", "0", "/", "1", "2", " ", "1", "1", ":", "0", "0", ":", "0", "0">>,
        <<"P", "0", "0", "4">>, <<"O", "b", "s", "e", "r", "v", "a", "t", "i", "o", "n">>,
        <<"O", "b", "s", "e", "r", "v", "a", "t", "i", "o", "n">>,
        <<>>, <<"2", "0", "2", "3", "/", "1", "0", "/", "1", "0">>,
        <<"2", "0", "2", "3", "/", "1", "0", "/", "1", "2">>, <<>>,
        Str(<<>>), Str(<<"I", "n", " ", "H", "o", "s", "p", "i", "t", "a", "l">>), <<"T", "1", "1">>)

\* A record that differs from the others in its newFractures only.
LevelRecord(id, newFractures) ==
    Rec(<<"2", "0", "2", "3", "/", "1", "0", "/", "1", "0", " ", "0", "9", ":", "1", "5", ":", "0", "0">>,
        id, <<"C", "o", "n", "s", "e", "r", "v", "a", "t", "i", "v", "e">>, <<>>, <<>>, <<>>,
        <<"2", "0", "2", "3", "/", "1", "0", "/", "1", "0">>, <<>>, Str(<<>>), Str(<<>>), newFractures)

\* one lumbar level
F1 == LevelRecord(<<"F", "1">>, <<"L", "1">>)

\* one thoracic level
F2 == LevelRecord(<<"F", "2">>, <<"T", "5">>)

\* two levels, comma and space
F3 == LevelRecord(<<"F", "3">>, <<"L", "1", ",", " ", "L", "2">>)

\* no level
F4 == LevelRecord(<<"F", "4">>, <<>>)

\* delimiters only
F5 == LevelRecord(<<"F", "5">>, <<"U3001", " ", ",">>)

\* the word Unknown
F6 == LevelRecord(<<"F", "6">>, <<"U", "n", "k", "n", "o", "w", "n">>)

\* a level that is neither thoracic nor lumbar, and a thoracic code whose
\* number is beyond every level of the spine
F7 == LevelRecord(<<"F", "7">>, <<"C", "7", " ", "T", "1", "5", "0">>)

\* every kind of label, out of order, every kind of delimiter
F8 == LevelRecord(<<"F", "8">>, <<"U", "n", "k", "n", "o", "w", "n", " ", "C", "7", " ", "L", "1", "0", "\t", "L", "2", ",", "T", "1", "2", "U3001", "T", "5">>)

LevelRecordNames == {"F1", "F2", "F3", "F4", "F5", "F6", "F7", "F8"}

\* The state holds a record by its name.
RecordNames == {"R1", "R2", "R3", "R4", "R5", "R6", "R7", "R8", "R9", "R10", "R11", "R12"}

\* conservative, the stay a negative numeric string on the follow-up side
S1 ==
    Rec(<<"2", "0", "2", "3", "/", "1", "0", "/", "1", "0", " ", "0", "9", ":", "1", "5", ":", "0", "0">>,
        <<"P", "1", "0", "1">>, <<"C", "o", "n", "s", "e", "r", "v", "a", "t", "i", "v", "e">>,
        <<>>,
        <<>>, <<"2", "0", "2", "3", "/", "1", "0", "/", "0", "8">>,
        <<"2", "0", "2", "3", "/", "1", "0", "/", "1", "0">>, <<>>,
        Str(<<>>), Str(<<"-", "3">>), <<"L", "3">>)

\* surgery one day after admission, the total stay a fractional string
S2 ==
    Rec(<<"2", "0", "2", "4", "/", "0", "1", "/", "0", "5", " ", "1", "0", ":", "0", "0", ":", "0", "0">>,
        <<"P", "1", "0", "2">>, <<"S", "u", "r", "g", "e", "r", "y">>,
        <<>>,
        <<"B", "K", "P">>, <<"2", "0", "2", "3", "/", "1", "2", "/", "2", "0">>,
        <<"2", "0", "2", "3", "/", "1", "2", "/", "2", "8">>, <<"2", "0", "2", "3", "/", "1", "2", "/", "2", "9">>,
        Str(<<"1", "4", ".", "5">>), Str(<<>>), <<"T", "1", "2">>)

RecordOf(name) ==
    CASE name = "R1" -> R1
      [] name = "R2" -> R2
      [] name = "R3" -> R3
      [] name = "R4" -> R4
      [] name = "R5" -> R5
      [] name = "R6" -> R6
      [] name = "R7" -> R7
      [] name = "R8" -> R8
      [] name = "R9" -> R9
      [] name = "R10" -> R10
      [] name = "R11" -> R11
      [] name = "R12" -> R12
      [] name = "M2" -> MockP002
      [] name = "M4" -> MockP004
      [] name = "F1" -> F1
      [] name = "F2" -> F2
      [] name = "F3" -> F3
      [] name = "F4" -> F4
      [] name = "F5" -> F5
      [] name = "F6" -> F6
      [] name = "F7" -> F7
      [] name = "F8" -> F8
      [] name = "S1" -> S1
      [] name = "S2" -> S2

\* The patients prop: the records the state names.
patientRecords == [i \in 1..Len(patients) |-> RecordOf(patients[i])]

----------------------------------------------------------------------------
(* The Dashboard component: what one rendering derives from the patients    *)
(* prop and the two pieces of state, filter and selectedYear.               *)

\* The decimal digits of a natural number.
RECURSIVE NatToDigits(_)
NatToDigits(k) ==
    IF k < 10 THEN <<DigitChars[k + 1]>>
    ELSE NatToDigits(k \div 10) \o <<DigitChars[(k % 10) + 1]>>

\* xs.reduce((a, b) => a + b, 0)
RECURSIVE Sum(_)
Sum(xs) == IF xs = <<>> THEN 0 ELSE Head(xs) + Sum(Tail(xs))

\* (a slip: the year of the rendering for a timestamp that does not parse)
YearStringOrCurrent(p) ==
    IF DateParse(p.timestamp).ok
    THEN NatToDigits(GetFullYear(DateParse(p.timestamp)))
    ELSE NatToDigits(CurrentYear)

\* String(new Date(p.timestamp).getFullYear())
YearString(p) ==
    IF DateParse(p.timestamp).ok
    THEN NatToDigits(GetFullYear(DateParse(p.timestamp)))
    ELSE <<"N", "a", "N">>

\* const years: the distinct years of the parseable timestamps
yearSet ==
    LET ys == {YearString(RecordOf(patients[i])) : i \in 1..Len(patients)}
    IN  ys \ {<<"N", "a", "N">>}

\* const yearFilteredPatients
yearFilteredPatients ==
    IF selectedYear = All THEN patientRecords
    ELSE SelectSeq(patientRecords, LAMBDA p : YearString(p) = selectedYear)

\* (a slip: the remarks compared without lower-casing)
IsSurgeryCandidateCaseSensitive(p) ==
    \/ Includes(p.outcome, MarkerSurgery)
    \/ Includes(p.outcome, MarkerShujutsu)
    \/ Includes(p.remarks, MarkerSurgeryLower)

\* the predicate of surgeryCandidates
IsSurgeryCandidate(p) ==
    \/ Includes(p.outcome, MarkerSurgery)
    \/ Includes(p.outcome, MarkerShujutsu)
    \/ Includes(ToLowerCase(p.remarks), MarkerSurgeryLower)

\* the predicate of observationPatients
IsObservationPatient(p) ==
    \/ Includes(p.outcome, MarkerObservation)
    \/ Includes(p.outcome, MarkerConservative)
    \/ Includes(p.outcome, MarkerHozon)
    \/ Includes(p.outcome, MarkerKeikaKansatsu)

\* (a slip: the total taken over the rows the text filter leaves)
totalVisiblePatients ==
    LET f == ToLowerCase(filter)
    IN  Len(SelectSeq(yearFilteredPatients,
                      LAMBDA p : \/ Includes(ToLowerCase(p.id), f)
                                 \/ Includes(ToLowerCase(p.outcome), f)
                                 \/ Includes(ToLowerCase(p.newFractures), f)))

totalPatients == Len(yearFilteredPatients)
surgeryCandidates == Len(SelectSeq(yearFilteredPatients, IsSurgeryCandidate))
observationPatients == Len(SelectSeq(yearFilteredPatients, IsObservationPatient))

\* The label of a record with no outcome, and of one with no fracture level.
LabelUnknown == <<"U", "n", "k", "n", "o", "w", "n">>

\* One step of a tally: existing.value++, or acc.push({ name, value: 1 }).
TallyName(acc, name) ==
    LET found == {i \in 1..Len(acc) : acc[i].name = name}
        i == CHOOSE k \in found : TRUE
    IN  IF found # {}
        THEN [acc EXCEPT ![i] = [name |-> name, value |-> acc[i].value + 1]]
        ELSE Append(acc, [name |-> name, value |-> 1])

\* (a slip: the outcome taken as it is, empty or not)
outcomeNameVerbatim(curr) == curr.outcome

\* const name = curr.outcome ? curr.outcome : "Unknown"
outcomeName(curr) == IF curr.outcome # <<>> THEN curr.outcome ELSE LabelUnknown

RECURSIVE ReduceOutcomes(_, _)
ReduceOutcomes(acc, ps) ==
    IF ps = <<>> THEN acc
    ELSE ReduceOutcomes(TallyName(acc, outcomeName(Head(ps))), Tail(ps))

\* const outcomeData
outcomeData == ReduceOutcomes(<<>>, yearFilteredPatients)

\* The characters of /[,<ideographic comma>\s]/.
LevelDelimiters == {",", "U3001"} \cup WhiteSpace

\* (a slip: the comma as the only delimiter)
SplitOnCommas(s) == SplitOn(s, ",")

\* rawLevel.split(/[,<ideographic comma>\s]+/): the pieces between the runs
\* of delimiters, an empty piece before a leading and after a trailing run
RECURSIVE SplitLevels(_)
SplitLevels(s) ==
    IF \E i \in 1..Len(s) : s[i] \in LevelDelimiters
    THEN LET i == CHOOSE k \in 1..Len(s) :
                      s[k] \in LevelDelimiters /\ \A j \in 1..(k - 1) : s[j] \notin LevelDelimiters
             after == {k \in (i + 1)..Len(s) : s[k] \notin LevelDelimiters}
             j == IF after = {} THEN Len(s) + 1
                  ELSE CHOOSE k \in after : \A m \in after : k <= m
         IN  <<SubSeq(s, 1, i - 1)>> \o SplitLevels(SubSeq(s, j, Len(s)))
    ELSE <<s>>

\* const levels, after the push of "Unknown" into an empty list
levelsOf(curr) ==
    LET rawLevel == IF curr.newFractures # <<>> THEN curr.newFractures ELSE LabelUnknown
        levels == SelectSeq(SplitLevels(rawLevel), LAMBDA piece : piece # <<>>)
    IN  IF Len(levels) = 0 THEN <<LabelUnknown>> ELSE levels

\* levels.forEach(...)
RECURSIVE TallyLevels(_, _)
TallyLevels(acc, levels) ==
    IF levels = <<>> THEN acc
    ELSE TallyLevels(TallyName(acc, Head(levels)), Tail(levels))

RECURSIVE ReduceLevels(_, _)
ReduceLevels(acc, ps) ==
    IF ps = <<>> THEN acc
    ELSE ReduceLevels(TallyLevels(acc, levelsOf(Head(ps))), Tail(ps))

ToUpperChar(c) ==
    IF \E i \in 1..26 : LowerChars[i] = c
    THEN UpperChars[CHOOSE i \in 1..26 : LowerChars[i] = c]
    ELSE c

\* String.prototype.toUpperCase
RECURSIVE ToUpperCase(_)
ToUpperCase(s) ==
    IF s = <<>> THEN <<>> ELSE <<ToUpperChar(Head(s))>> \o ToUpperCase(Tail(s))

\* The leading decimal digits of s.
RECURSIVE DigitPrefix(_)
DigitPrefix(s) ==
    IF s # <<>> /\ IsDigit(Head(s)) THEN <<Head(s)>> \o DigitPrefix(Tail(s)) ELSE <<>>

\* parseInt(s) || 0 for a string without white space: an optional sign and
\* the digits that follow it; 0 when there is no digit
ParseIntOrZero(s) ==
    LET signed == s # <<>> /\ Head(s) \in {"-", "+"}
        digits == DigitPrefix(IF signed THEN Tail(s) ELSE s)
    IN  IF digits = <<>> THEN 0
        ELSE IF signed /\ Head(s) = "-" THEN -DigitsToNat(digits)
        ELSE DigitsToNat(digits)

\* (a slip: the numeric suffix left out of the sort key)
getLevelValByPrefix(name) ==
    LET n == ToUpperCase(name)
    IN  IF n # <<>> /\ Head(n) = "T" THEN 100
        ELSE IF n # <<>> /\ Head(n) = "L" THEN 200
        ELSE IF n = ToUpperCase(LabelUnknown) THEN 999
        ELSE 300

\* const getLevelVal
getLevelVal(name) ==
    LET n == ToUpperCase(name)
    IN  IF n # <<>> /\ Head(n) = "T" THEN 100 + ParseIntOrZero(Tail(n))
        ELSE IF n # <<>> /\ Head(n) = "L" THEN 200 + ParseIntOrZero(Tail(n))
        ELSE IF n = ToUpperCase(LabelUnknown) THEN 999
        ELSE 300

\* Array.prototype.sort((a, b) => getLevelVal(a.name) - getLevelVal(b.name)):
\* stable, ascending
RECURSIVE InsertByLevel(_, _)
InsertByLevel(sorted, x) ==
    IF sorted = <<>> THEN <<x>>
    ELSE IF getLevelVal(Head(sorted).name) <= getLevelVal(x.name)
         THEN <<Head(sorted)>> \o InsertByLevel(Tail(sorted), x)
         ELSE <<x>> \o sorted

RECURSIVE SortByLevel(_)
SortByLevel(xs) ==
    IF xs = <<>> THEN <<>>
    ELSE InsertByLevel(SortByLevel(SubSeq(xs, 1, Len(xs) - 1)), xs[Len(xs)])

\* const fractureLevelData
fractureLevelData == SortByLevel(ReduceLevels(<<>>, yearFilteredPatients))

\* (a slip: the remarks consulted as in surgeryCandidates)
IsSurgeryOutcomeOrRemarks(p) ==
    \/ Includes(p.outcome, MarkerSurgery)
    \/ Includes(p.outcome, MarkerShujutsu)
    \/ Includes(ToLowerCase(p.remarks), MarkerSurgeryLower)

\* p.outcome.includes("Surgery") || p.outcome.includes(<shujutsu>): the filter
\* of the surgery-only lists
IsSurgeryOutcome(p) == Includes(p.outcome, MarkerSurgery) \/ Includes(p.outcome, MarkerShujutsu)

\* const dischargeVal = p.hospitalizationPeriod || p.followUpStatus
dischargeVal(p) == OrElse(p.hospitalizationPeriod, p.followUpStatus)

\* const isTotalDays = !isNaN(Number(dischargeVal)) && Number(dischargeVal) < 1000
isTotalDays(p) == IsDayCount(ToNumber(dischargeVal(p)))

\* const preOpDays
preOpDays(p) == calculateHospitalizationDays(p.admissionDate, Str(p.surgeryDate), p.timestamp)

\* A derived duration: null, or n/Scale days.
NoDuration == [null |-> TRUE, n |-> 0]
Duration(k) == [null |-> FALSE, n |-> k]
DurationOf(r) == IF r.null THEN NoDuration ELSE Duration(r.n * Scale)

\* The value postOpDaysList maps a record to.
postOpDays(p) ==
    IF isTotalDays(p) /\ ~preOpDays(p).null
    THEN Duration(ToNumber(dischargeVal(p)).n - preOpDays(p).n * Scale)
    ELSE DurationOf(calculateHospitalizationDays(p.surgeryDate, dischargeVal(p), p.timestamp))

\* .filter(d => d !== null && d >= 0)
Counted(d) == ~d.null /\ d.n >= 0

\* const postOpDaysList
postOpDaysList ==
    LET surgical == SelectSeq(yearFilteredPatients, IsSurgeryOutcome)
    IN  SelectSeq([i \in 1..Len(surgical) |-> postOpDays(surgical[i])], Counted)

\* Math.round(sum / length), or 0 for an empty list
Average(ds) ==
    IF Len(ds) > 0
    THEN RoundDiv(Sum([i \in 1..Len(ds) |-> ds[i].n]), Len(ds) * Scale)
    ELSE 0

avgPostOpDays == Average(postOpDaysList)

\* The value procedurePostOpData adds for a record (let days).
procedureDays(p) ==
    IF isTotalDays(p)
    THEN IF ~preOpDays(p).null
         THEN Duration(ToNumber(dischargeVal(p)).n - preOpDays(p).n * Scale)
         ELSE NoDuration
    ELSE DurationOf(calculateHospitalizationDays(p.surgeryDate, dischargeVal(p), p.timestamp))

\* One step of the reduce of procedurePostOpData.
AddProcedure(acc, curr) ==
    LET days == procedureDays(curr)
        found == {i \in 1..Len(acc) : acc[i].name = curr.procedure}
        i == CHOOSE k \in found : TRUE
        total == acc[i].totalDays + days.n
    IN  IF ~Counted(days) THEN acc
        ELSE IF found # {}
             THEN [acc EXCEPT ![i] = [name |-> curr.procedure, totalDays |-> total,
                                      count |-> acc[i].count + 1,
                                      value |-> RoundDiv(total, (acc[i].count + 1) * Scale) * Scale]]
             ELSE Append(acc, [name |-> curr.procedure, totalDays |-> days.n,
                               count |-> 1, value |-> days.n])

RECURSIVE ReduceProcedures(_, _)
ReduceProcedures(acc, ps) ==
    IF ps = <<>> THEN acc ELSE ReduceProcedures(AddProcedure(acc, Head(ps)), Tail(ps))

\* Array.prototype.sort((a, b) => b.value - a.value): stable, descending
RECURSIVE InsertByValue(_, _)
InsertByValue(sorted, x) ==
    IF sorted = <<>> THEN <<x>>
    ELSE IF Head(sorted).value >= x.value
         THEN <<Head(sorted)>> \o InsertByValue(Tail(sorted), x)
         ELSE <<x>> \o sorted

RECURSIVE SortByValueDesc(_)
SortByValueDesc(xs) ==
    IF xs = <<>> THEN <<>>
    ELSE InsertByValue(SortByValueDesc(SubSeq(xs, 1, Len(xs) - 1)), xs[Len(xs)])

\* const procedurePostOpData
procedurePostOpData ==
    SortByValueDesc(ReduceProcedures(<<>>,
        SelectSeq(yearFilteredPatients,
                  LAMBDA p : IsSurgeryOutcome(p) /\ p.procedure # <<>>)))

\* A variant that counts the days from the admission to the surgery.
timeFromAdmissionList ==
    LET surgical == SelectSeq(yearFilteredPatients, IsSurgeryOutcome)
    IN  SelectSeq([i \in 1..Len(surgical) |->
                      DurationOf(calculateHospitalizationDays(
                          surgical[i].admissionDate, Str(surgical[i].surgeryDate),
                          surgical[i].timestamp))],
                  Counted)

\* const timeToSurgeryList
timeToSurgeryList ==
    LET surgical == SelectSeq(yearFilteredPatients, IsSurgeryOutcome)
    IN  SelectSeq([i \in 1..Len(surgical) |->
                      DurationOf(calculateHospitalizationDays(
                          surgical[i].injuryDate, Str(surgical[i].surgeryDate),
                          surgical[i].timestamp))],
                  Counted)

avgTimeToSurgery == Average(timeToSurgeryList)

\* The length-of-stay lists and their averages.
stayDays(p) ==
    DurationOf(calculateHospitalizationDays(p.admissionDate, dischargeVal(p), p.timestamp))

surgeryHospitalizationDays ==
    LET surgical == SelectSeq(yearFilteredPatients, IsSurgeryOutcome)
    IN  SelectSeq([i \in 1..Len(surgical) |-> stayDays(surgical[i])],
                  LAMBDA d : ~d.null)

conservativeHospitalizationDays ==
    LET others == SelectSeq(yearFilteredPatients, LAMBDA p : ~IsSurgeryOutcome(p))
    IN  SelectSeq([i \in 1..Len(others) |-> stayDays(others[i])],
                  LAMBDA d : ~d.null)

\* The records each length-of-stay list is mapped from (its first filter).
surgeryStayPatients == SelectSeq(yearFilteredPatients, IsSurgeryOutcome)
conservativeStayPatients == SelectSeq(yearFilteredPatients, LAMBDA p : ~IsSurgeryOutcome(p))

avgHospitalizationSurgery == Average(surgeryHospitalizationDays)
avgHospitalizationConservative == Average(conservativeHospitalizationDays)

\* The seven summary cards of the page: a label and the value rendered under
\* it, for the averages followed by the word "days".
CountCard(label, k) == [label |-> label, value |-> k]
DaysCard(label, k) == [label |-> label, value |-> k, unit |-> "days"]

statCards ==
    << CountCard("Total Consults", totalPatients),
       CountCard("Surgery Candidates", surgeryCandidates),
       CountCard("Observation / Conservative", observationPatients),
       DaysCard("Avg. Total Stay (Surgery)", avgHospitalizationSurgery),
       DaysCard("Avg. Total Stay (Conservative)", avgHospitalizationConservative),
       DaysCard("Avg. Post-op Days", avgPostOpDays),
       DaysCard("Avg. Time-to-Surgery", avgTimeToSurgery) >>

\* const hospitalizationComparisonData
hospitalizationComparisonData ==
    << [name |-> "Surgery", value |-> avgHospitalizationSurgery],
       [name |-> "Conservative", value |-> avgHospitalizationConservative] >>

\* The Post-op Days cell of a row: "-" (dash), or `${n} days`.
Dash == [dash |-> TRUE, n |-> 0]
DaysText(k) == [dash |-> FALSE, n |-> k]

postOpCell(patient) ==
    LET days == calculateHospitalizationDays(patient.surgeryDate, dischargeVal(patient),
                                             patient.timestamp)
    IN  IF ~IsSurgeryOutcome(patient) THEN Dash
        ELSE IF isTotalDays(patient) /\ ~preOpDays(patient).null
             THEN DaysText(ToNumber(dischargeVal(patient)).n - preOpDays(patient).n * Scale)
        ELSE IF ~days.null THEN DaysText(days.n * Scale)
        ELSE Dash

\* (a slip: the filter text compared as typed)
MatchesFilterAsTyped(p) ==
    \/ Includes(ToLowerCase(p.id), filter)
    \/ Includes(ToLowerCase(p.outcome), filter)
    \/ Includes(ToLowerCase(p.newFractures), filter)

\* const filteredPatients
MatchesFilter(p) ==
    LET f == ToLowerCase(filter)
    IN  \/ Includes(ToLowerCase(p.id), f)
        \/ Includes(ToLowerCase(p.outcome), f)
        \/ Includes(ToLowerCase(p.newFractures), f)

filteredPatients == SelectSeq(yearFilteredPatients, MatchesFilter)

\* The outcomes "Surgery", the Japanese for surgery, "Conservative", the
\* Japanese for observation and "", none with a surgery mention in remarks.
FiveOutcomes == <<"R1", "R2", "R3", "R4", "R5">>

RECURSIVE SeqsUpTo(_, _)
SeqsUpTo(S, k) ==
    IF k = 0 THEN {<<>>}
    ELSE LET shorter == SeqsUpTo(S, k - 1)
         IN  shorter \cup {Append(xs, x) : xs \in {ys \in shorter : Len(ys) = k - 1}, x \in S}

PatientLists == SeqsUpTo(RecordNames, MaxPatients) \cup {FiveOutcomes}

\* The texts typed into the search box.
Filters == {<<>>, <<"S", "U", "R", "G">>, <<"l", "1">>, <<"p", "0", "0", "5">>}

InitDash ==
    /\ EnvInit
    /\ CalcIdle
    /\ patients \in PatientLists
    /\ filter = <<>>
    /\ selectedYear = All
    /\ LoaderReturned
    /\ SessionOpen

\* onChange of the search box: setFilter(e.target.value)
SetFilter ==
    /\ \E f \in Filters : f # filter /\ filter' = f
    /\ UNCHANGED <<tz, admission, dischargeOrPeriod, timestamp, result, pc,
                   patients, selectedYear, loaderVars, sessionVars>>

\* onChange of the year select: setSelectedYear(e.target.value), the options
\* being "All" and the years
SetSelectedYear ==
    /\ \E y \in {All} \cup yearSet : y # selectedYear /\ selectedYear' = y
    /\ UNCHANGED <<tz, admission, dischargeOrPeriod, timestamp, result, pc,
                   patients, filter, loaderVars, sessionVars>>

NextDash == SetFilter \/ SetSelectedYear

SpecDash == InitDash /\ [][NextDash]_vars

\* const MOCK_PATIENTS: the four sample records, by name
MOCK_PATIENTS == <<"R1", "M2", "R3", "M4">>

----------------------------------------------------------------------------
(* fetchPatients, and the page of Home that awaits it *)

\* The record lists the feed can send.
FeedRecordNames == {"R1", "R6"}
FeedLists == SeqsUpTo(FeedRecordNames, MaxPatients)

\* The page a web application answers with when its script has failed.
HtmlPage == <<"<html>">>

\* The bodies a response can carry: an array of records, an array cut short,
\* a page that is not JSON, or nothing.
Bodies ==
    {ArrayBody(l) : l \in FeedLists}
        \cup {<<"[", "R1">>, HtmlPage, <<>>}

\* The responses the fetch can resolve with; the ones that are not ok carry
\* a page or, as well, an array.
Responses ==
    {HttpResponse(TRUE, b) : b \in Bodies}
        \cup {HttpResponse(FALSE, b) : b \in {HtmlPage, ArrayBody(<<"R1">>)}}

\* response.json(): the array the body spells, or a rejection.
JsonParse(body) ==
    IF /\ Len(body) >= 2
       /\ body[1] = "[" /\ body[Len(body)] = "]"
       /\ \A i \in 2..(Len(body) - 1) : body[i] \in RecordNames \cup {"M2", "M4"}
    THEN [ok |-> TRUE, value |-> SubSeq(body, 2, Len(body) - 1)]
    ELSE [ok |-> FALSE, value |-> <<>>]

\* A variant whose catch block throws the error on.
catchRethrow == [pc |-> "threw", value |-> <<>>, log |-> <<"error">>]

\* catch (error) { console.error(...); return MOCK_PATIENTS; }
catchBlock == [pc |-> "returned", value |-> MOCK_PATIENTS, log |-> <<"error">>]

\* The call leaving through the catch block.
Caught ==
    /\ loaderPc' = catchBlock.pc
    /\ patients' = catchBlock.value
    /\ log' = log \o catchBlock.log

InitFetch ==
    /\ EnvInit
    /\ CalcIdle
    /\ DashIdle
    /\ apiUrl \in ApiUrls
    /\ loaderPc = "start"
    /\ requests = 0
    /\ response = NoResponse
    /\ log = <<>>
    /\ SessionOpen

\* if (!apiUrl) { console.warn(...); await new Promise(... setTimeout 500)
StartWithoutUrl ==
    /\ loaderPc = "start" /\ apiUrl = NoUrl
    /\ log' = Append(log, "warn")
    /\ loaderPc' = "timer"
    /\ UNCHANGED <<tz, admission, dischargeOrPeriod, timestamp, result, pc,
                   patients, filter, selectedYear, apiUrl, requests, response, sessionVars>>

\* the timer fires: return MOCK_PATIENTS
TimerFires ==
    /\ loaderPc = "timer"
    /\ patients' = MOCK_PATIENTS
    /\ loaderPc' = "returned"
    /\ UNCHANGED <<tz, admission, dischargeOrPeriod, timestamp, result, pc,
                   filter, selectedYear, apiUrl, requests, response, log, sessionVars>>

\* try { const response = await fetch(apiUrl, ...): the request goes out
IssueFetch ==
    /\ loaderPc = "start" /\ apiUrl # NoUrl
    /\ requests' = requests + 1
    /\ loaderPc' = "fetching"
    /\ UNCHANGED <<tz, admission, dischargeOrPeriod, timestamp, result, pc,
                   patients, filter, selectedYear, apiUrl, response, log, sessionVars>>

\* the fetch rejects (a network error): the catch block
FetchRejects ==
    /\ loaderPc = "fetching"
    /\ response' = NetworkError
    /\ Caught
    /\ UNCHANGED <<tz, admission, dischargeOrPeriod, timestamp, result, pc,
                   filter, selectedYear, apiUrl, requests, sessionVars>>

\* the fetch resolves: if (!response.ok) throw new Error(...), caught below;
\* otherwise await response.json()
FetchResolves ==
    /\ loaderPc = "fetching"
    /\ \E r \in Responses :
           /\ response' = r
           /\ IF ~r.ok
              THEN Caught
              ELSE loaderPc' = "parsing" /\ UNCHANGED <<patients, log>>
    /\ UNCHANGED <<tz, admission, dischargeOrPeriod, timestamp, result, pc,
                   filter, selectedYear, apiUrl, requests, sessionVars>>

\* response.json() settles: return data, or the catch block on a rejection
JsonSettles ==
    /\ loaderPc = "parsing"
    /\ LET data == JsonParse(response.body)
       IN  IF data.ok
           THEN /\ patients' = data.value
                /\ loaderPc' = "returned"
                /\ UNCHANGED log
           ELSE Caught
    /\ UNCHANGED <<tz, admission, dischargeOrPeriod, timestamp, result, pc,
                   filter, selectedYear, apiUrl, requests, response, sessionVars>>

NextFetch ==
    \/ StartWithoutUrl
    \/ TimerFires
    \/ IssueFetch
    \/ FetchRejects
    \/ FetchResolves
    \/ JsonSettles

\* return <Dashboard patients={patients} />, and the page in use thereafter
Render == loaderPc = "returned" /\ NextDash

NextHome == NextFetch \/ Render

\* The timer fires and the transport settles every request in the end, with
\* a response or with an error.
SpecFetch == InitFetch /\ [][NextHome]_vars /\ WF_vars(NextFetch)

----------------------------------------------------------------------------
(* The session: login, logout and the middleware in front of the pages *)

\* The longest chain of redirects the model follows.
MaxHops == 3

\* s begins with pre.
StartsWith(s, pre) == Len(s) >= Len(pre) /\ SubSeq(s, 1, Len(pre)) = pre

\* (?!api|_next/static|_next/image|favicon.ico) fails at rest: rest begins
\* with one of the four alternatives, the dot standing for any character.
LookaheadFails(rest) ==
    \/ StartsWith(rest, <<"a", "p", "i">>)
    \/ StartsWith(rest, <<"_", "n", "e", "x", "t", "/", "s", "t", "a", "t", "i", "c">>)
    \/ StartsWith(rest, <<"_", "n", "e", "x", "t", "/", "i", "m", "a", "g", "e">>)
    \/ /\ Len(rest) >= 11
       /\ SubSeq(rest, 1, 7) = <<"f", "a", "v", "i", "c", "o", "n">>
       /\ SubSeq(rest, 9, 11) = <<"i", "c", "o">>

\* config.matcher: the middleware runs on the paths "/" followed by a rest
\* at which the lookahead does not fail.
MatcherMatches(path) == Head(path) = "/" /\ ~LookaheadFails(Tail(path))

Redirect(to) == [kind |-> "redirect", to |-> to]
PassThrough == [kind |-> "next", to |-> NoPath]

\* A variant that sends a request without a session to "/".
middlewareToRoot(cookie, pathname) ==
    LET isLoginPage == pathname = LoginPath
    IN  IF cookie = NoCookie /\ ~isLoginPage THEN Redirect(RootPath)
        ELSE IF cookie # NoCookie /\ isLoginPage THEN Redirect(RootPath)
        ELSE PassThrough

\* export function middleware(request), on the cookie "session" of the
\* request and request.nextUrl.pathname
middleware(cookie, pathname) ==
    LET isLoginPage == pathname = LoginPath
    IN  IF cookie = NoCookie /\ ~isLoginPage THEN Redirect(LoginPath)
        ELSE IF cookie # NoCookie /\ isLoginPage THEN Redirect(RootPath)
        ELSE PassThrough

\* A variant that compares the username only.
loginAcceptsUser(username, password) == username = authEnv.user

\* username === validUser && password === validPass
loginAccepts(username, password) ==
    username = authEnv.user /\ password = authEnv.pass

\* The paths a browser asks for.
Paths ==
    { RootPath, LoginPath, <<"/", "p", "1">>,
      <<"/", "a", "p", "i", "/", "d", "a", "t", "a">>, <<"/", "a", "p", "i", "a", "r", "y">>,
      <<"/", "f", "a", "v", "i", "c", "o", "n", ".", "i", "c", "o">>,
      <<"/", "_", "n", "e", "x", "t", "/", "i", "m", "a", "g", "e">> }

\* What formData.get returns: null for an absent field, or a string.
FormValues == {FormNull, AuthUser, AuthPass, <<"x">>}

\* process.env.AUTH_USER and AUTH_PASS, each set or not.
AuthEnvs == [user : {Undefined, AuthUser}, pass : {Undefined, AuthPass}]

\* fetchPatients has not been called.
LoaderIdle ==
    /\ apiUrl = NoUrl
    /\ loaderPc = "start"
    /\ requests = 0
    /\ response = NoResponse
    /\ log = <<>>

InitSession ==
    /\ EnvInit
    /\ CalcIdle
    /\ DashIdle
    /\ LoaderIdle
    /\ authEnv \in AuthEnvs
    /\ session = NoCookie
    /\ loggedIn = FALSE
    /\ loginResult = "none"
    /\ pending = NoPath
    /\ hops = 0
    /\ served = NoPath

dashVars == <<tz, admission, dischargeOrPeriod, timestamp, result, pc,
              patients, filter, selectedYear, loaderVars>>

\* The browser is sent to a path.
Navigate ==
    /\ pending = NoPath
    /\ \E p \in Paths : pending' = p
    /\ hops' = 0
    /\ UNCHANGED <<dashVars, authEnv, session, loggedIn, loginResult, served>>

\* The server takes the pending request: past the middleware when the
\* matcher does not match the path, through the middleware otherwise; the
\* browser follows a redirect with the same cookie.
Gate ==
    /\ pending # NoPath /\ hops < MaxHops
    /\ LET answer == IF MatcherMatches(pending)
                     THEN middleware(session, pending)
                     ELSE PassThrough
       IN  IF answer.kind = "redirect"
           THEN /\ pending' = answer.to
                /\ hops' = hops + 1
                /\ UNCHANGED served
           ELSE /\ served' = pending
                /\ pending' = NoPath
                /\ UNCHANGED hops
    /\ UNCHANGED <<dashVars, authEnv, session, loggedIn, loginResult>>

\* export async function login(formData), however the call was reached
Login ==
    /\ \E username \in FormValues, password \in FormValues :
           IF loginAccepts(username, password)
           THEN /\ session' = Authenticated
                /\ loginResult' = "success"
                /\ loggedIn' = (loggedIn \/ (username = authEnv.user /\ password = authEnv.pass))
                /\ hops' = IF session = Authenticated THEN hops ELSE 0
           ELSE /\ loginResult' = "error"
                /\ UNCHANGED <<session, loggedIn, hops>>
    /\ UNCHANGED <<dashVars, authEnv, pending, served>>

\* export async function logout(): the cookie deleted, redirect("/login")
Logout ==
    /\ session' = NoCookie
    /\ loggedIn' = FALSE
    /\ pending' = LoginPath
    /\ hops' = 0
    /\ UNCHANGED <<dashVars, authEnv, loginResult, served>>

\* maxAge: 60 * 60 * 24 * 7: the browser drops the cookie after a week
Expire ==
    /\ session # NoCookie
    /\ session' = NoCookie
    /\ hops' = 0
    /\ UNCHANGED <<dashVars, authEnv, loggedIn, loginResult, pending, served>>

NextSession == Navigate \/ Gate \/ Login \/ Logout \/ Expire

SpecSession == InitSession /\ [][NextSession]_vars

\* The Dashboard over the records that bear on the duration statistics, and
\* over the sample records.
StatRecordNames == {"R2", "R3", "R5", "R6", "R8", "R10", "R11"}

StatLists == SeqsUpTo(StatRecordNames, MaxPatients) \cup {MOCK_PATIENTS}

\* The Dashboard over the records that bear on the fracture-level chart.
LevelLists == SeqsUpTo(LevelRecordNames, MaxPatients)

InitLevels ==
    /\ EnvInit
    /\ CalcIdle
    /\ patients \in LevelLists
    /\ filter = <<>>
    /\ selectedYear = All
    /\ LoaderReturned
    /\ SessionOpen

SpecLevels == InitLevels /\ [][NextDash]_vars

\* The Dashboard over the records that bear on the year list, the table and
\* the outcome chart: two years, unparseable timestamps, outcomes in both
\* languages and in lower case, an empty outcome.
TableRecordNames == {"R1", "R4", "R5", "R6", "R11", "R12"}

TableLists == SeqsUpTo(TableRecordNames, MaxPatients)

InitTable ==
    /\ EnvInit
    /\ CalcIdle
    /\ patients \in TableLists
    /\ filter = <<>>
    /\ selectedYear = All
    /\ LoaderReturned
    /\ SessionOpen

SpecTable == InitTable /\ [][NextDash]_vars

\* The Dashboard over records whose stay is negative or fractional.
SignedRecordNames == {"R2", "R9", "S1", "S2"}

SignedLists == SeqsUpTo(SignedRecordNames, MaxPatients)

InitSigned ==
    /\ EnvInit
    /\ CalcIdle
    /\ patients \in SignedLists
    /\ filter = <<>>
    /\ selectedYear = All
    /\ LoaderReturned
    /\ SessionOpen

SpecSigned == InitSigned /\ [][NextDash]_vars

\* The Dashboard over records of two years and of no year, with durations,
\* procedures and several fracture levels: what a change of the text filter
\* or of the year leaves alone.
FrameRecordNames == {"R2", "R6", "R10", "R12"}

FrameLists == SeqsUpTo(FrameRecordNames, MaxPatients)

InitFrame ==
    /\ EnvInit
    /\ CalcIdle
    /\ patients \in FrameLists
    /\ filter = <<>>
    /\ selectedYear = All
    /\ LoaderReturned
    /\ SessionOpen

SpecFrame == InitFrame /\ [][NextDash]_vars

InitStats ==
    /\ EnvInit
    /\ CalcIdle
    /\ patients \in StatLists
    /\ filter = <<>>
    /\ selectedYear = All
    /\ LoaderReturned
    /\ SessionOpen

SpecStats == InitStats /\ [][NextDash]_vars

----------------------------------------------------------------------------
(* Claims about calculateHospitalizationDays, under SpecCalc *)

\* The end marker is not the empty string.
EndNonEmpty == dischargeOrPeriod.isNum \/ dischargeOrPeriod.str # <<>>

\* The trimmed end marker.
EndStr == Trim(StringOf(dischargeOrPeriod))

\* |k|
Abs(k) == IF k < 0 THEN -k ELSE k

\* The call returned k days.
Returned(k) == ~result.null /\ result.n = k

\* C1: the function returns a non-negative integer or indeterminate, never a
\* negative number, on every start marker, end marker and timestamp.
C1_NeverNegative == pc = "done" => (result.null \/ result.n >= 0)

\* C2: an end marker that parses as a number of magnitude below 1000 is
\* returned as its floor; a number of magnitude 1000 or more is never
\* returned as a direct day count.
C2_DirectDayCount ==
    LET num == ToNumber(dischargeOrPeriod)
    IN  (pc = "done" /\ EndNonEmpty /\ ~num.nan) =>
            /\ Abs(num.n) < DayCountLimit * Scale => Returned(Floor(num.n))
            /\ Abs(num.n) >= DayCountLimit * Scale => result.rule # "direct"

\* The markers of the example of C4.
C4_Start == <<"2", "0", "2", "3", "-", "1", "2", "-", "2", "8">>
C4_End == <<"0", "1", "-", "0", "3">>
C4_Timestamp == <<"2", "0", "2", "4", "/", "0", "1", "/", "0", "5", " ", "1", "0", ":", "0", "0", ":", "0", "0">>

\* Both markers resolve to dates, none of the earlier rules applying.
BothResolve ==
    /\ EndNonEmpty
    /\ ~IsDayCount(StringToNumber(EndStr))
    /\ admission # <<>>
    /\ EndStr # Trim(admission)
    /\ IsDate(EndStr)
    /\ parseDate(admission, BaseYear(timestamp)).ok
    /\ parseDate(EndStr, BaseYear(timestamp)).ok

\* C4: when both markers resolve to dates and the start is after the end, the
\* start is re-dated into the year before the base year and the day
\* difference from it to the end is returned when it is >= 0; the example
\* "2023-12-28", "01-03", "2024/01/05 10:00:00" returns 6.
C4_YearBoundary ==
    LET baseYear == BaseYear(timestamp)
        startDate == parseDate(admission, baseYear)
        endDate == parseDate(EndStr, baseYear)
        redated == SetFullYear(startDate, baseYear - 1)
    IN  pc = "done" =>
            /\ (BothResolve /\ DateAfter(startDate, endDate)
                    /\ DiffDays(redated, endDate) >= 0)
                   => Returned(DiffDays(redated, endDate))
            /\ (admission = C4_Start /\ dischargeOrPeriod = Str(C4_End)
                    /\ timestamp = C4_Timestamp)
                   => Returned(6)

\* The date rule yields a result: both markers resolve and the difference,
\* after the year-boundary handling, is not negative.
DateRuleYields ==
    LET baseYear == BaseYear(timestamp)
        startDate == parseDate(admission, baseYear)
        endDate == parseDate(EndStr, baseYear)
    IN  /\ IsDate(EndStr) /\ startDate.ok /\ endDate.ok
        /\ DiffDays(AdjustedStart(startDate, endDate, baseYear), endDate) >= 0

\* No rule before the textual fallback yields a result.
NoEarlierRule ==
    /\ EndNonEmpty
    /\ ~IsDayCount(StringToNumber(EndStr))
    /\ EndStr # Trim(admission)
    /\ ~DateRuleYields

\* The result the textual fallback is to give: the integer of the end
\* marker's digits when there is one below 1000, else indeterminate.
DigitsResult ==
    LET digits == OnlyDigits(EndStr)
    IN  IF digits # <<>> /\ DigitsToNat(digits) < 1000
        THEN Returned(DigitsToNat(digits))
        ELSE result.null

C6_UnparseableIsIndeterminate ==
    (/\ pc = "done"
     /\ EndNonEmpty
     /\ ~parseDate(admission, BaseYear(timestamp)).ok
     /\ ~IsDayCount(StringToNumber(EndStr))
     /\ IsDate(EndStr))
        => result.null

\* C7: an end marker that is non-empty and no number below 1000, and whose
\* trimmed text equals the trimmed start marker, gives 0 on every timestamp.
C7_IdenticalIsZero ==
    (/\ pc = "done"
     /\ EndNonEmpty
     /\ ~IsDayCount(StringToNumber(EndStr))
     /\ EndStr = Trim(admission))
        => Returned(0)

\* C7's case: a padded start marker equal to the end marker after trimming,
\* neither of them a date.
C7_Witness ==
    /\ pc = "done"
    /\ admission = <<" ", "a", "b", "c", " ">>
    /\ dischargeOrPeriod = Str(<<"a", "b", "c">>)
    /\ Returned(0)

----------------------------------------------------------------------------
(* Claims about the derivations of the Dashboard, under SpecDash *)

\* The records of the year-filtered list.
Shown == LET yfp == yearFilteredPatients IN {yfp[i] : i \in 1..Len(yfp)}

\* C3: an empty string is unknown, never zero: a surgical record whose
\* hospitalizationPeriod and followUpStatus are both empty adds no value to
\* the post-op list or to a procedure group, an empty end marker gives
\* indeterminate, and an empty surgeryDate adds nothing to time-to-surgery.
C3_EmptyIsUnknown ==
    \A p \in Shown :
        /\ (/\ IsSurgeryOutcome(p)
            /\ p.hospitalizationPeriod = Str(<<>>)
            /\ p.followUpStatus = Str(<<>>))
               => ~Counted(postOpDays(p)) /\ ~Counted(procedureDays(p))
        /\ calculateHospitalizationDays(p.admissionDate, Str(<<>>), p.timestamp).null
        /\ (IsSurgeryOutcome(p) /\ p.surgeryDate = <<>>)
               => ~Counted(DurationOf(calculateHospitalizationDays(
                                          p.injuryDate, Str(p.surgeryDate), p.timestamp)))

\* The post-operative days of a record as the spec derives them: a pure day
\* count minus the pre-operative interval (indeterminate when that interval
\* is), otherwise the days from the surgery date to the discharge value.
SpecPostOpDays(p) ==
    IF isTotalDays(p)
    THEN IF preOpDays(p).null THEN NoDuration
         ELSE Duration(ToNumber(dischargeVal(p)).n - preOpDays(p).n * Scale)
    ELSE DurationOf(calculateHospitalizationDays(p.surgeryDate, dischargeVal(p), p.timestamp))

\* C8: every surgical record's post-operative days are the spec's, only the
\* determinate, non-negative ones enter the list, and a pure day count of
\* total stay is never itself counted as the post-op days.
C8_PostOpDays ==
    /\ \A p \in Shown : IsSurgeryOutcome(p) => postOpDays(p) = SpecPostOpDays(p)
    /\ LET list == postOpDaysList IN \A i \in 1..Len(list) : Counted(list[i])
    /\ LET yfp == yearFilteredPatients
       IN  Len(postOpDaysList) =
               Cardinality({i \in 1..Len(yfp) :
                                IsSurgeryOutcome(yfp[i]) /\ Counted(SpecPostOpDays(yfp[i]))})

\* C9: the value a record adds to its procedure group is the value it adds
\* to the post-op list (absent from one exactly when absent from the other);
\* a group's value is round(totalDays / count); the groups are in descending
\* order of value.
C9_ProcedureGroupsSameValue ==
    /\ \A p \in Shown :
           (IsSurgeryOutcome(p) /\ p.procedure # <<>>) =>
               /\ Counted(procedureDays(p)) <=> Counted(postOpDays(p))
               /\ Counted(procedureDays(p)) => procedureDays(p) = postOpDays(p)
    /\ LET groups == procedurePostOpData
       IN  /\ \A i \in 1..Len(groups) :
                  groups[i].value
                      = RoundDiv(groups[i].totalDays, groups[i].count * Scale) * Scale
           /\ \A i \in 1..(Len(groups) - 1) : groups[i].value >= groups[i + 1].value

\* m occurs in s, the letters of s compared as they are (fold = FALSE) or
\* without regard to case (fold = TRUE).
Occurs(m, s, fold) ==
    \E i \in 0..(Len(s) - Len(m)) :
        \A k \in 1..Len(m) :
            (IF fold THEN ToLowerChar(s[i + k]) ELSE s[i + k]) = m[k]

\* The two classes as the spec words them.
SpecSurgical(p) ==
    \/ Occurs(MarkerSurgery, p.outcome, FALSE)
    \/ Occurs(MarkerShujutsu, p.outcome, FALSE)
    \/ Occurs(MarkerSurgeryLower, p.remarks, TRUE)

SpecConservative(p) ==
    \E m \in {MarkerObservation, MarkerConservative, MarkerHozon, MarkerKeikaKansatsu} :
        Occurs(m, p.outcome, FALSE)

\* C10: a record counts as surgical exactly when its outcome contains
\* "Surgery" or its Japanese, or its remarks contain "surgery" in any case,
\* and as conservative exactly when its outcome contains one of the four
\* conservative markers; on the five outcomes of the example the counts are
\* 2 and 2 and the empty-outcome record is in neither.
C10_Classification ==
    /\ LET yfp == yearFilteredPatients
       IN  /\ surgeryCandidates = Cardinality({i \in 1..Len(yfp) : SpecSurgical(yfp[i])})
           /\ observationPatients = Cardinality({i \in 1..Len(yfp) : SpecConservative(yfp[i])})
    /\ (patients = FiveOutcomes /\ selectedYear = All) =>
           /\ surgeryCandidates = 2
           /\ observationPatients = 2
           /\ ~IsSurgeryCandidate(R5) /\ ~IsObservationPatient(R5)

\* C10's case: the five outcomes of the example are on display, two of them
\* counted as surgical and two as conservative.
C10_Witness ==
    /\ patients = FiveOutcomes /\ selectedYear = All
    /\ surgeryCandidates = 2 /\ observationPatients = 2

\* The surgical bucket as the spec words it: the outcome names surgery.
SpecSurgicalOutcome(p) ==
    Occurs(MarkerSurgery, p.outcome, FALSE) \/ Occurs(MarkerShujutsu, p.outcome, FALSE)

\* The time-to-surgery value of a record.
TimeToSurgeryOf(p) ==
    DurationOf(calculateHospitalizationDays(p.injuryDate, Str(p.surgeryDate), p.timestamp))

\* C11: every year-filtered record is in exactly one length-of-stay bucket,
\* the surgical one when its outcome contains "Surgery" or its Japanese and
\* the conservative one otherwise; a record that is surgical through its
\* remarks only, or has an empty outcome, is in the conservative bucket and
\* in none of post-op days, time-to-surgery and the per-procedure groups.
C11_StayBuckets ==
    LET yfp == yearFilteredPatients
        groups == procedurePostOpData
        surgical == {i \in 1..Len(yfp) : SpecSurgicalOutcome(yfp[i])}
    IN  /\ surgeryStayPatients = SelectSeq(yfp, SpecSurgicalOutcome)
        /\ conservativeStayPatients = SelectSeq(yfp, LAMBDA p : ~SpecSurgicalOutcome(p))
        /\ Len(surgeryStayPatients) + Len(conservativeStayPatients) = Len(yfp)
        /\ Len(postOpDaysList)
               = Cardinality({i \in surgical : Counted(postOpDays(yfp[i]))})
        /\ Len(timeToSurgeryList)
               = Cardinality({i \in surgical : Counted(TimeToSurgeryOf(yfp[i]))})
        /\ Sum([i \in 1..Len(groups) |-> groups[i].count])
               = Cardinality({i \in surgical : /\ yfp[i].procedure # <<>>
                                               /\ Counted(procedureDays(yfp[i]))})

\* C11's case: a record surgical through its remarks only and a record with
\* an empty outcome are on display, both in the conservative bucket.
C11_Witness ==
    /\ patients = <<"R6", "R5">> /\ selectedYear = All
    /\ IsSurgeryCandidate(R6) /\ R5.outcome = <<>>
    /\ Len(conservativeStayPatients) = 2 /\ Len(surgeryStayPatients) = 0

\* k is the mean of the durations ds rounded to the nearest integer (a half
\* may go either way), or 0 when there is none.
IsRoundedMean(k, ds) ==
    LET total == Sum([i \in 1..Len(ds) |-> ds[i].n])
        gap == 2 * (total - k * Len(ds) * Scale)
    IN  IF Len(ds) = 0 THEN k = 0
        ELSE gap <= Len(ds) * Scale /\ -gap <= Len(ds) * Scale

\* The card of an average shows, next to the average, the number of the
\* durations it was taken over.
ShowsCount(i, ds) ==
    /\ "count" \in DOMAIN statCards[i]
    /\ statCards[i].count = Len(ds)

\* C12: each of the four duration averages is the mean of its contributing
\* durations rounded to the nearest integer, is 0 when none contributes, and
\* is shown with the number of contributing records, so that "no data" can
\* be told apart from "zero days".
C12_AveragesWithCounts ==
    /\ IsRoundedMean(avgHospitalizationSurgery, surgeryHospitalizationDays)
    /\ IsRoundedMean(avgHospitalizationConservative, conservativeHospitalizationDays)
    /\ IsRoundedMean(avgPostOpDays, postOpDaysList)
    /\ IsRoundedMean(avgTimeToSurgery, timeToSurgeryList)
    /\ statCards[4].value = avgHospitalizationSurgery
    /\ statCards[5].value = avgHospitalizationConservative
    /\ statCards[6].value = avgPostOpDays
    /\ statCards[7].value = avgTimeToSurgery
    /\ ShowsCount(4, surgeryHospitalizationDays)
    /\ ShowsCount(5, conservativeHospitalizationDays)
    /\ ShowsCount(6, postOpDaysList)
    /\ ShowsCount(7, timeToSurgeryList)

----------------------------------------------------------------------------
(* Claims about the fracture-level chart, under SpecLevels *)

\* The names of the entries of a chart, in order.
NamesOf(data) == [i \in 1..Len(data) |-> data[i].name]

\* The numeric suffix of a level code: the number after its first letter.
SpecSuffix(name) ==
    IF Len(name) > 1 /\ AllDigits(Tail(name)) THEN DigitsToNat(Tail(name)) ELSE 0

\* The four groups in the order the spec gives them: T codes, L codes,
\* "Unknown", anything else.
SpecLevelGroup(name) ==
    IF name # <<>> /\ Head(name) = "T" THEN 1
    ELSE IF name # <<>> /\ Head(name) = "L" THEN 2
    ELSE IF name = LabelUnknown THEN 3
    ELSE 4

\* The four groups in the order the chart has them: "Unknown" last.
ChartLevelGroup(name) ==
    IF name # <<>> /\ Head(name) = "T" THEN 1
    ELSE IF name # <<>> /\ Head(name) = "L" THEN 2
    ELSE IF name = LabelUnknown THEN 4
    ELSE 3

\* The example of C13: "L1" then "T5" comes out as "T5" then "L1".
C13_Example ==
    (patients = <<"F1", "F2">> /\ selectedYear = All) =>
        NamesOf(fractureLevelData) = << <<"T", "5">>, <<"L", "1">> >>

\* C13 as stated: in the fracture-level chart every T code is before every L
\* code, every L code before "Unknown", "Unknown" before every other label,
\* the T codes and the L codes each in ascending order of their number;
\* "L1", "T5" is ordered "T5", "L1".
C13_LevelOrder ==
    LET names == NamesOf(fractureLevelData)
    IN  /\ \A i, j \in 1..Len(names) :
               i < j =>
                   /\ SpecLevelGroup(names[i]) <= SpecLevelGroup(names[j])
                   /\ (SpecLevelGroup(names[i]) = SpecLevelGroup(names[j])
                          /\ SpecLevelGroup(names[i]) \in {1, 2})
                         => SpecSuffix(names[i]) <= SpecSuffix(names[j])
        /\ C13_Example

\* C13 as amended: for codes whose number is below 100, every T code is
\* before every L code, every L code before every label that is neither a
\* T code, an L code nor "Unknown", and "Unknown" is last; the T codes and
\* the L codes are each in ascending order of their number; "L1", "T5" is
\* ordered "T5", "L1".
C13_LevelOrderUnknownLast ==
    LET names == NamesOf(fractureLevelData)
    IN  /\ \A i, j \in 1..Len(names) :
               (i < j /\ SpecSuffix(names[i]) < 100 /\ SpecSuffix(names[j]) < 100) =>
                   /\ ChartLevelGroup(names[i]) <= ChartLevelGroup(names[j])
                   /\ (ChartLevelGroup(names[i]) = ChartLevelGroup(names[j])
                          /\ ChartLevelGroup(names[i]) \in {1, 2})
                         => SpecSuffix(names[i]) <= SpecSuffix(names[j])
        /\ C13_Example

\* C13's case: a record that names two T codes, two L codes, another label
\* and "Unknown", out of order, is charted in the order of the chart.
C13_Witness ==
    /\ patients = <<"F8">> /\ selectedYear = All
    /\ NamesOf(fractureLevelData)
           = << <<"T", "5">>, <<"T", "1", "2">>, <<"L", "2">>, <<"L", "1", "0">>,
                <<"C", "7">>, LabelUnknown >>

\* The delimiters of a multi-value field: comma, Japanese comma, white space.
SpecDelimiters == {",", "U3001", " ", "\t", "\n", "U3000"}

\* The places of s where a token starts, and the token that starts at i.
TokenStarts(s) ==
    {i \in 1..Len(s) : s[i] \notin SpecDelimiters /\ (i = 1 \/ s[i - 1] \in SpecDelimiters)}

TokenAt(s, i) ==
    LET ends == {k \in i..Len(s) : \A m \in i..k : s[m] \notin SpecDelimiters}
    IN  SubSeq(s, i, CHOOSE k \in ends : \A m \in ends : m <= k)

\* What the newFractures s adds to the bucket b: one for each token equal to
\* b, and one to "Unknown" when s has no token.
SpecLevelCount(s, b) ==
    IF TokenStarts(s) = {} THEN (IF b = LabelUnknown THEN 1 ELSE 0)
    ELSE Cardinality({i \in TokenStarts(s) : TokenAt(s, i) = b})

\* C14: each token of a record's newFractures, split on comma, Japanese comma
\* and white space with empty segments discarded, adds exactly one to the
\* bucket of its name; a record whose newFractures is empty or has only
\* delimiters adds exactly one to "Unknown"; every record adds to at least
\* one bucket.
C14_LevelTally ==
    LET yfp == yearFilteredPatients
        data == fractureLevelData
    IN  /\ \A k, m \in 1..Len(data) : data[k].name = data[m].name => k = m
        /\ \A k \in 1..Len(data) :
               /\ data[k].value >= 1
               /\ data[k].value
                      = Sum([i \in 1..Len(yfp) |->
                                SpecLevelCount(yfp[i].newFractures, data[k].name)])
        /\ \A i \in 1..Len(yfp) :
               \E k \in 1..Len(data) :
                   SpecLevelCount(yfp[i].newFractures, data[k].name) >= 1
        /\ \A i \in 1..Len(yfp) :
               \A t \in TokenStarts(yfp[i].newFractures) :
                   \E k \in 1..Len(data) :
                       data[k].name = TokenAt(yfp[i].newFractures, t)

\* C14's case: "L1, L2" with a record of delimiters only: one each in "L1",
\* "L2" and "Unknown".
C14_Witness ==
    /\ patients = <<"F3", "F5">> /\ selectedYear = All
    /\ fractureLevelData
           = << [name |-> <<"L", "1">>, value |-> 1],
                [name |-> <<"L", "2">>, value |-> 1],
                [name |-> LabelUnknown, value |-> 1] >>

----------------------------------------------------------------------------
(* Claims about the outcome chart, the year list and the table, under      *)
(* SpecTable                                                                *)

\* The label of a record in the outcome chart as the spec words it.
SpecOutcomeLabel(p) == IF p.outcome = <<>> THEN <<"U", "n", "k", "n", "o", "w", "n">> ELSE p.outcome

\* C15: the outcome distribution has exactly one entry per distinct label of
\* the year-filtered records, the label being the outcome as it stands or
\* "Unknown" for an empty one; an entry's value is the number of records
\* with its label; the entries are in the order of first occurrence.
C15_OutcomeDistribution ==
    LET yfp == yearFilteredPatients
        data == outcomeData
        labels == [i \in 1..Len(yfp) |-> SpecOutcomeLabel(yfp[i])]
        firstOf == [k \in 1..Len(data) |->
                       CHOOSE i \in 1..Len(yfp) :
                           /\ labels[i] = data[k].name
                           /\ \A j \in 1..(i - 1) : labels[j] # data[k].name]
    IN  /\ {data[k].name : k \in 1..Len(data)} = {labels[i] : i \in 1..Len(yfp)}
        /\ \A k, m \in 1..Len(data) : data[k].name = data[m].name => k = m
        /\ \A k \in 1..Len(data) :
               data[k].value = Cardinality({i \in 1..Len(yfp) : labels[i] = data[k].name})
        /\ \A k, m \in 1..Len(data) : k < m => firstOf[k] < firstOf[m]

\* C15's case: a record with no outcome ahead of a surgical one.
C15_Witness ==
    /\ patients = <<"R5", "R1">> /\ selectedYear = All
    /\ outcomeData = << [name |-> LabelUnknown, value |-> 1],
                        [name |-> MarkerSurgery, value |-> 1] >>

\* A timestamp as the form writes it, "YYYY/MM/DD hh:mm:ss", and its year.
SpecParses(ts) == Len(ts) >= 10 /\ AllDigits(SubSeq(ts, 1, 4)) /\ ts[5] = "/"
SpecYear(ts) == SubSeq(ts, 1, 4)

\* C17: the year list holds exactly the distinct calendar years of the
\* records whose timestamp parses; "All" selects every record, those with an
\* unparseable timestamp included; a year selects exactly the records whose
\* timestamp is of that year.
C17_YearList ==
    LET all == patientRecords
    IN  /\ yearSet = {SpecYear(all[i].timestamp) :
                          i \in {k \in 1..Len(all) : SpecParses(all[k].timestamp)}}
        /\ selectedYear = All => yearFilteredPatients = all
        /\ selectedYear # All =>
               yearFilteredPatients
                   = SelectSeq(all, LAMBDA p : /\ SpecParses(p.timestamp)
                                               /\ SpecYear(p.timestamp) = selectedYear)

\* C17's case: of a record with an unparseable timestamp and a record of
\* 2024, the year list holds 2024 only and selecting it leaves the second.
C17_Witness ==
    /\ patients = <<"R4", "R5">>
    /\ ~DateParse(R4.timestamp).ok
    /\ yearSet = {<<"2", "0", "2", "4">>}
    /\ selectedYear = <<"2", "0", "2", "4">>
    /\ yearFilteredPatients = <<R5>>

\* m occurs in s, letters compared without regard to case.
OccursFolded(m, s) ==
    \E i \in 0..(Len(s) - Len(m)) :
        \A k \in 1..Len(m) : ToLowerChar(s[i + k]) = ToLowerChar(m[k])

\* The rows the spec makes visible.
SpecVisible(p) ==
    \/ OccursFolded(filter, p.id)
    \/ OccursFolded(filter, p.outcome)
    \/ OccursFolded(filter, p.newFractures)

\* C18: a year-filtered record is in the table exactly when the filter text
\* occurs, case disregarded, in its id, outcome or newFractures; with an empty
\* filter every year-filtered record is in the table.
C18_TextFilter ==
    LET yfp == yearFilteredPatients
    IN  /\ filteredPatients = SelectSeq(yfp, SpecVisible)
        /\ filter = <<>> => filteredPatients = yfp

\* C18's case: "SURG" typed over a surgical record and a record that
\* mentions surgery in its remarks only: the first is visible alone.
C18_Witness ==
    /\ patients = <<"R1", "R6">> /\ selectedYear = All
    /\ filter = <<"S", "U", "R", "G">>
    /\ filteredPatients = <<R1>>

----------------------------------------------------------------------------
(* The claim about what the text filter leaves alone, under SpecFrame *)

\* The year-filtered records, from the record list and the selected year.
SpecShown ==
    IF selectedYear = All THEN patientRecords
    ELSE SelectSeq(patientRecords,
                   LAMBDA p : SpecParses(p.timestamp) /\ SpecYear(p.timestamp) = selectedYear)

\* The durations that are not indeterminate, and those that count.
Determinate(ds) == SelectSeq(ds, LAMBDA d : ~d.null)
CountedOnly(ds) == SelectSeq(ds, Counted)

\* C16: whatever the text filter and however it was changed, the total, the
\* surgical and conservative counts, the duration averages, the three
\* distributions and the year list are those of the record list and the
\* selected year alone, the text filter having no part in them, and the table
\* is the part of the year-filtered records that matches the text filter.
C16_FilterFrame ==
    LET shown == SpecShown
        surgical == SelectSeq(shown, SpecSurgicalOutcome)
        others == SelectSeq(shown, LAMBDA p : ~SpecSurgicalOutcome(p))
        withProcedure == SelectSeq(surgical, LAMBDA p : p.procedure # <<>>)
        groups == procedurePostOpData
        levels == fractureLevelData
        outcomes == outcomeData
    IN  /\ totalPatients = Len(shown)
        /\ surgeryCandidates = Len(SelectSeq(shown, SpecSurgical))
        /\ observationPatients = Len(SelectSeq(shown, SpecConservative))
        /\ surgeryHospitalizationDays
               = Determinate([i \in 1..Len(surgical) |-> stayDays(surgical[i])])
        /\ conservativeHospitalizationDays
               = Determinate([i \in 1..Len(others) |-> stayDays(others[i])])
        /\ postOpDaysList = CountedOnly([i \in 1..Len(surgical) |-> postOpDays(surgical[i])])
        /\ timeToSurgeryList
               = CountedOnly([i \in 1..Len(surgical) |-> TimeToSurgeryOf(surgical[i])])
        /\ IsRoundedMean(avgHospitalizationSurgery, surgeryHospitalizationDays)
        /\ IsRoundedMean(avgHospitalizationConservative, conservativeHospitalizationDays)
        /\ IsRoundedMean(avgPostOpDays, postOpDaysList)
        /\ IsRoundedMean(avgTimeToSurgery, timeToSurgeryList)
        /\ \A k \in 1..Len(outcomes) :
               outcomes[k].value
                   = Len(SelectSeq(shown, LAMBDA p : SpecOutcomeLabel(p) = outcomes[k].name))
        /\ Sum([k \in 1..Len(outcomes) |-> outcomes[k].value]) = Len(shown)
        /\ \A k \in 1..Len(levels) :
               levels[k].value
                   = Sum([i \in 1..Len(shown) |->
                             SpecLevelCount(shown[i].newFractures, levels[k].name)])
        /\ Sum([k \in 1..Len(levels) |-> levels[k].value]) >= Len(shown)
        /\ \A k \in 1..Len(groups) :
               LET members == CountedOnly(
                                  [i \in 1..Len(withProcedure) |->
                                      IF withProcedure[i].procedure = groups[k].name
                                      THEN procedureDays(withProcedure[i]) ELSE NoDuration])
               IN  /\ groups[k].count = Len(members)
                   /\ groups[k].totalDays = Sum([i \in 1..Len(members) |-> members[i].n])
        /\ Sum([k \in 1..Len(groups) |-> groups[k].count])
               = Len(CountedOnly([i \in 1..Len(withProcedure) |->
                                     procedureDays(withProcedure[i])]))
        /\ yearSet = {SpecYear(patientRecords[i].timestamp) :
                          i \in {k \in 1..Len(patientRecords) :
                                     SpecParses(patientRecords[k].timestamp)}}
        /\ filteredPatients = SelectSeq(shown, SpecVisible)

\* C16's case: the year 2023 selected and then a filter typed that hides one
\* of the two records of that year; the total still counts both.
C16_Witness ==
    /\ patients = <<"R10", "R6">>
    /\ selectedYear = <<"2", "0", "2", "3">>
    /\ filter = <<"S", "U", "R", "G">>
    /\ filteredPatients = <<R10>>
    /\ totalPatients = 2 /\ surgeryCandidates = 2 /\ avgPostOpDays = 14

----------------------------------------------------------------------------
(* The claim about the bundled sample records, under SpecStats *)

\* The surgical records of the year-filtered list, by their ids.
SurgicalIds ==
    LET yfp == yearFilteredPatients
    IN  {yfp[i].id : i \in {k \in 1..Len(yfp) : SpecSurgical(yfp[k])}}

\* C20: with the four sample records, the year "All" and an empty filter, in
\* every timezone, the total is 4, the surgical records are P001 and P002,
\* their times to surgery are 7 and 3 days and the average time to surgery is
\* 5, the two records without a surgery date contributing nothing.
C20_MockScenario ==
    (patients = MOCK_PATIENTS /\ selectedYear = All /\ filter = <<>>)
        => /\ totalPatients = 4
           /\ surgeryCandidates = 2
           /\ SurgicalIds = {<<"P", "0", "0", "1">>, <<"P", "0", "0", "2">>}
           /\ TimeToSurgeryOf(R1) = Duration(7 * Scale)
           /\ TimeToSurgeryOf(MockP002) = Duration(3 * Scale)
           /\ timeToSurgeryList = <<Duration(7 * Scale), Duration(3 * Scale)>>
           /\ avgTimeToSurgery = 5
           /\ IsRoundedMean(avgTimeToSurgery, timeToSurgeryList)

\* C20's case: the page showing the four sample records unfiltered.
C20_Witness ==
    /\ patients = MOCK_PATIENTS /\ selectedYear = All /\ filter = <<>>
    /\ Len(filteredPatients) = 4
    /\ avgTimeToSurgery = 5

----------------------------------------------------------------------------
(* The claim about fetchPatients, under SpecFetch *)

\* The body spells an array of records.
SpecArray(body) ==
    /\ Len(body) >= 2
    /\ Head(body) = "[" /\ body[Len(body)] = "]"
    /\ \A i \in 2..(Len(body) - 1) : body[i] \notin {"[", "]", "<html>"}

\* The request failed: a network error, a response that is not a success,
\* or a body that does not parse.
SpecFetchFailed ==
    \/ response.kind = "error"
    \/ response.kind = "response" /\ (~response.ok \/ ~SpecArray(response.body))

\* C19: fetchPatients never issues more than one request, none when no
\* address is configured, and no exception leaves it; it returns in the end;
\* once it has returned, the list it resolved to is the sample records when
\* no address is configured or the request failed through a network error, a
\* response that is not a success or a body that does not parse, and the
\* array of the body otherwise.
C19_FetchFallback ==
    /\ [](requests <= 1 /\ loaderPc # "threw")
    /\ [](apiUrl = NoUrl => requests = 0 /\ response = NoResponse)
    /\ [](loaderPc = "returned" =>
              /\ \A i \in 1..Len(patients) : patients[i] \notin {"[", "]", "<html>"}
              /\ (apiUrl = NoUrl \/ SpecFetchFailed) => patients = MOCK_PATIENTS
              /\ (apiUrl # NoUrl /\ ~SpecFetchFailed) =>
                     /\ requests = 1
                     /\ response.body = <<"[">> \o patients \o <<"]">>)
    /\ <>(loaderPc = "returned")

\* C19's case: the one request answered by a success whose body is cut
\* short, the call returned with the sample records and one logged error.
C19_Witness ==
    /\ loaderPc = "returned"
    /\ requests = 1
    /\ response = HttpResponse(TRUE, <<"[", "R1">>)
    /\ patients = MOCK_PATIENTS
    /\ log = <<"error">>

----------------------------------------------------------------------------
(* The claim about the sign of the averages, under SpecSigned *)

\* C22: the four duration averages of the cards are non-negative integers
\* and every per-procedure value of the chart is a non-negative whole number
\* of days, whatever the records, those with a negative or fractional
\* hospitalizationPeriod or followUpStatus included.
C22_AveragesNonNegative ==
    LET groups == procedurePostOpData
    IN  /\ avgHospitalizationSurgery \in Nat
        /\ avgHospitalizationConservative \in Nat
        /\ avgPostOpDays \in Nat
        /\ avgTimeToSurgery \in Nat
        /\ \A k \in 1..Len(groups) :
               groups[k].value >= 0 /\ groups[k].value % Scale = 0

\* The part of C22 that the code keeps: the post-op and time-to-surgery
\* averages are non-negative integers, and no per-procedure value is negative.
C22_FilteredAverages ==
    LET groups == procedurePostOpData
    IN  /\ avgPostOpDays \in Nat
        /\ avgTimeToSurgery \in Nat
        /\ \A k \in 1..Len(groups) : groups[k].value >= 0

\* The three ways C22 fails: a negative surgical stay average, a negative
\* conservative stay average, a fractional per-procedure value.
C22_NegativeSurgical == ~(patients = <<"R9">> /\ avgHospitalizationSurgery = -5)
C22_NegativeConservative == ~(patients = <<"S1">> /\ avgHospitalizationConservative = -3)
C22_FractionalProcedure ==
    ~(patients = <<"S2">> /\ procedurePostOpData[1].value = (27 * Scale) \div 2)

----------------------------------------------------------------------------
(* The claims about the session, under SpecSession *)

\* The step in which the server lets the pending request through.
LetThrough == pending # NoPath /\ pending' = NoPath /\ served' = pending

\* The step in which the server answers the pending request, with a
\* redirect or by letting it through.
Answered == pending # NoPath /\ (LetThrough \/ hops' = hops + 1)

\* The step of a login that returns an error after one that did not.
LoginFailed == loginResult # "error" /\ loginResult' = "error"

\* The paths the middleware is configured away from: those that begin with
\* /api, /_next/static, /_next/image or /favicon.ico.
SpecUngated(path) ==
    \E pre \in {<<"/", "a", "p", "i">>, <<"/", "_", "n", "e", "x", "t", "/", "s", "t", "a", "t", "i", "c">>, <<"/", "_", "n", "e", "x", "t", "/", "i", "m", "a", "g", "e">>} :
        Len(path) >= Len(pre) /\ \A i \in 1..Len(pre) : path[i] = pre[i]

SpecFavicon(path) ==
    /\ Len(path) >= 12
    /\ \A i \in 1..8 : path[i] = <<"/", "f", "a", "v", "i", "c", "o", "n">>[i]
    /\ \A i \in 1..3 : path[9 + i] = <<"i", "c", "o">>[i]

SpecGated(path) == ~SpecUngated(path) /\ ~SpecFavicon(path)

\* C21, as stated: the cookie is present only after a login with both
\* configured credentials that no logout has followed; a request for any
\* path other than /login is let through only with the cookie present and is
\* redirected to /login in every other state; a failed login leaves the
\* cookie as it was.
C21_SessionGate ==
    /\ [](session # NoCookie => loggedIn)
    /\ [][(LetThrough /\ pending # LoginPath) => session # NoCookie]_vars
    /\ [][(Answered /\ pending # LoginPath /\ session = NoCookie)
              => (pending' = LoginPath /\ served' = served)]_vars
    /\ [][LoginFailed => (session' = session /\ loggedIn' = loggedIn)]_vars

\* C21, amended: the same for the paths other than /login that do not begin
\* with /api, /_next/static, /_next/image or /favicon.ico; a request for a
\* path that does is let through whatever the cookie.
C21_SessionGateOnMatchedPaths ==
    /\ [](session # NoCookie => loggedIn)
    /\ [][(LetThrough /\ pending # LoginPath /\ SpecGated(pending))
              => session # NoCookie]_vars
    /\ [][(Answered /\ pending # LoginPath /\ SpecGated(pending) /\ session = NoCookie)
              => (pending' = LoginPath /\ served' = served)]_vars
    /\ [][(Answered /\ ~SpecGated(pending)) => LetThrough]_vars
    /\ [][LoginFailed => (session' = session /\ loggedIn' = loggedIn)]_vars

\* C21's case: a login with the configured credentials has set the cookie
\* and a request for "/" has been let through with it.
C21_Witness ==
    /\ session = Authenticated /\ loggedIn
    /\ loginResult = "success"
    /\ served = RootPath /\ pending = NoPath /\ hops = 0

\* C21's other case: a login has failed, the cookie is absent, and a request
\* for a gated path has been redirected once and /login let through.
C21_WitnessRedirected ==
    /\ session = NoCookie /\ loginResult = "error"
    /\ served = LoginPath /\ pending = NoPath /\ hops = 1

\* C23: under one cookie state the middleware redirects a navigation at most
\* once; whatever the path, the redirect goes to /login without a session
\* and to / with a session on /login, and the middleware lets that path
\* through under the same cookie.
C23_NoRedirectLoop ==
    /\ hops <= 1
    /\ \A p \in Paths :
           LET answer == middleware(session, p)
           IN  answer.kind = "redirect" =>
                   /\ answer.to = IF session = NoCookie THEN LoginPath ELSE RootPath
                   /\ session # NoCookie => p = LoginPath
                   /\ MatcherMatches(answer.to)
                   /\ middleware(session, answer.to).kind = "next"

\* C23's case: with a session, /login was asked for, redirected once to "/"
\* and "/" let through.
C23_Witness ==
    /\ session = Authenticated
    /\ hops = 1 /\ pending = NoPath /\ served = RootPath

====
